---- MODULE Spec2Model ----
(***************************************************************************)
(* Model of the religious-sites directory: the database accessor and its   *)
(* combined filter (src/src/utils/database.ts), the record validator      *)
(* (utils/validation.ts, kept as src/unnamed/part_004) and the directory   *)
(* page with its search box, filter panel, table, detail card and guide    *)
(* (src/src/components).                                                   *)
(*                                                                         *)
(* A JavaScript string is a sequence of one-character strings, so that     *)
(* toLowerCase, trim, includes and the regular expressions are computed    *)
(* character by character. A Partial<ReligiousSite> is a record holding    *)
(* every field together with `has`, the set of the paths that are defined  *)
(* on the object; a path that is not in `has` reads as undefined.          *)
(* Coordinates are in tenths of a degree (31.5 degrees is 315).            *)
(***************************************************************************)
EXTENDS Integers, Sequences, FiniteSets, TLC

VARIABLES
    religiousSitesData,  \* the imported JSON module: [shape, sites]
    call,                \* the accessor call in progress: [op, filters]
    result,              \* the array the call returned
    site,                \* the record handed to the validator
    validation,          \* the validator's report: [fn, isValid, errors, warnings]
    \* state of DirectoryPage
    currentFilters, filteredSites, selectedSite, isDetailCardOpen, viewMode, showHowToUse,
    \* state of DirectoryHero
    searchQuery, searchHistory, suggestions, showSuggestions,
    \* state of SiteTable
    sortField, sortDirection,
    \* state of useInteractiveGuide and InteractiveGuide: guideSeen is the
    \* stored flag 'hoshiarpur-sakhi-guide-seen', timer the pending setTimeout
    isGuideOpen, hasSeenGuide, currentStep, guideSeen, timer,
    handler              \* the event handler that ran last

pageVars ==
    <<currentFilters, filteredSites, selectedSite, isDetailCardOpen, viewMode, showHowToUse>>

heroVars == <<searchQuery, searchHistory, suggestions, showSuggestions>>

tableVars == <<sortField, sortDirection>>

guideVars == <<isGuideOpen, hasSeenGuide, currentStep, guideSeen, timer>>

uiVars == <<pageVars, heroVars, tableVars, guideVars, handler>>

vars == <<religiousSitesData, call, result, site, validation, uiVars>>

(***************************************************************************)
(* Bounds of the model.                                                    *)
(***************************************************************************)
MaxSites == 2

MaxDeviations == 2

(***************************************************************************)
(* Strings.                                                                *)
(***************************************************************************)
Upper == <<"A","B","C","D","E","F","G","H","I","J","K","L","M",
           "N","O","P","Q","R","S","T","U","V","W","X","Y","Z">>

Lower == <<"a","b","c","d","e","f","g","h","i","j","k","l","m",
           "n","o","p","q","r","s","t","u","v","w","x","y","z">>

Digits == {"0","1","2","3","4","5","6","7","8","9"}

WhiteSpace == {" ", "\t", "\n"}

Range(s) == {s[i] : i \in 1..Len(s)}

LowerOf == [c \in {Upper[i] : i \in 1..26} |-> Lower[CHOOSE i \in 1..26 : Upper[i] = c]]

ToLowerChar(c) == IF c \in DOMAIN LowerOf THEN LowerOf[c] ELSE c

\* String.prototype.toLowerCase
ToLowerCase(s) == [i \in 1..Len(s) |-> ToLowerChar(s[i])]

\* String.prototype.includes: t occurs in s as a contiguous run
Includes(s, t) ==
    \E i \in 0..(Len(s) - Len(t)) : \A k \in 1..Len(t) : s[i + k] = t[k]

\* String.prototype.trim: white space removed from both ends
Trim(s) ==
    IF \A i \in 1..Len(s) : s[i] \in WhiteSpace THEN <<>>
    ELSE LET lo == CHOOSE i \in 1..Len(s) :
                        s[i] \notin WhiteSpace /\ \A j \in 1..(i - 1) : s[j] \in WhiteSpace
             hi == CHOOSE i \in 1..Len(s) :
                        s[i] \notin WhiteSpace /\ \A j \in (i + 1)..Len(s) : s[j] \in WhiteSpace
         IN SubSeq(s, lo, hi)

(***************************************************************************)
(* Records (src/unnamed/part_003, ReligiousSite and SearchFilters).        *)
(***************************************************************************)
RequiredPaths ==
    {"id", "name", "type", "description", "history",
     "location", "location.address", "location.city", "location.coordinates",
     "location.coordinates.lat", "location.coordinates.lng",
     "timings", "timings.weekdays", "timings.weekends", "facilities"}

\* {}: no path defined, every field at its placeholder
EmptyObject ==
    [kind |-> "object", has |-> {}, numeric |-> {}, id |-> <<>>, name |-> <<>>, type |-> "", description |-> <<>>,
     history |-> <<>>, address |-> <<>>, city |-> <<>>, lat |-> 0, lng |-> 0,
     weekdays |-> <<>>, weekends |-> <<>>, specialDays |-> <<>>,
     facilities |-> <<>>, phone |-> <<>>, email |-> <<>>, images |-> <<>>]

\* a record with every required field and no optional one
ReligiousSite(id, name, type, address, city, description, history, facilities) ==
    [EmptyObject EXCEPT !.has = RequiredPaths, !.id = id, !.name = name,
        !.type = type, !.address = address, !.city = city,
        !.lat = 315, !.lng = 759,
        !.description = description, !.history = history,
        !.weekdays = <<"2","4"," ","h","o","u","r","s">>,
        !.weekends = <<"2","4"," ","h","o","u","r","s">>,
        !.facilities = facilities]

SearchFilters(query, type, location, facilities) ==
    [query |-> query, type |-> type, location |-> location, facilities |-> facilities]

NoFilters == SearchFilters(<<>>, "all", <<>>, <<>>)

(***************************************************************************)
(* Record validator (utils/validation.ts, src/unnamed/part_004).           *)
(* `errors` and `warnings` are the message arrays in the order of the      *)
(* pushes; the degree signs of the region messages are left out.           *)
(***************************************************************************)
Defined(s, path) == path \in s.has

\* !value for a string-valued property: undefined or the empty string (a
\* non-zero number in its place is truthy)
Falsy(s, path, value) == ~Defined(s, path) \/ (path \notin s.numeric /\ value = <<>>)

\* !value || value.trim() === ''
MissingOrBlank(s, path, value) == Falsy(s, path, value) \/ Trim(value) = <<>>

Push(condition, message) == IF condition THEN <<message>> ELSE <<>>

Report(errors) == [isValid |-> errors = <<>>, errors |-> errors]

\* mutant of validateReligiousSite: returns at the first violated rule
validateReligiousSiteFailFast(s) ==
    LET first ==
            IF MissingOrBlank(s, "id", s.id) THEN <<"Site ID is required">>
            ELSE IF MissingOrBlank(s, "name", s.name) THEN <<"Site name is required">>
            ELSE IF ~Defined(s, "type") \/ s.type \notin {"temple", "gurdwara"}
                 THEN <<"Site type must be either \"temple\" or \"gurdwara\"">>
            ELSE IF MissingOrBlank(s, "description", s.description)
                 THEN <<"Site description is required">>
            ELSE IF MissingOrBlank(s, "history", s.history) THEN <<"Site history is required">>
            ELSE IF ~Defined(s, "location") THEN <<"Location information is required">>
            ELSE IF MissingOrBlank(s, "location.address", s.address)
                 THEN <<"Location address is required">>
            ELSE IF MissingOrBlank(s, "location.city", s.city) THEN <<"Location city is required">>
            ELSE IF ~Defined(s, "location.coordinates") THEN <<"Location coordinates are required">>
            ELSE IF ~Defined(s, "location.coordinates.lat")
                 THEN <<"Location latitude must be a number">>
            ELSE IF ~Defined(s, "location.coordinates.lng")
                 THEN <<"Location longitude must be a number">>
            ELSE IF ~Defined(s, "timings") THEN <<"Timings information is required">>
            ELSE IF MissingOrBlank(s, "timings.weekdays", s.weekdays)
                 THEN <<"Weekday timings are required">>
            ELSE IF MissingOrBlank(s, "timings.weekends", s.weekends)
                 THEN <<"Weekend timings are required">>
            ELSE IF ~Defined(s, "facilities") THEN <<"Facilities must be provided as an array">>
            ELSE IF Len(s.facilities) = 0 THEN <<"At least one facility must be specified">>
            ELSE <<>>
    IN Report(first)

validateReligiousSite(s) ==
    LET locationErrors ==
            IF ~Defined(s, "location")
            THEN <<"Location information is required">>
            ELSE Push(MissingOrBlank(s, "location.address", s.address),
                      "Location address is required")
                 \o Push(MissingOrBlank(s, "location.city", s.city),
                         "Location city is required")
                 \o (IF ~Defined(s, "location.coordinates")
                     THEN <<"Location coordinates are required">>
                     ELSE Push(~Defined(s, "location.coordinates.lat"),
                               "Location latitude must be a number")
                          \o Push(~Defined(s, "location.coordinates.lng"),
                                  "Location longitude must be a number"))
        timingsErrors ==
            IF ~Defined(s, "timings")
            THEN <<"Timings information is required">>
            ELSE Push(MissingOrBlank(s, "timings.weekdays", s.weekdays),
                      "Weekday timings are required")
                 \o Push(MissingOrBlank(s, "timings.weekends", s.weekends),
                         "Weekend timings are required")
        facilitiesErrors ==
            IF ~Defined(s, "facilities")
            THEN <<"Facilities must be provided as an array">>
            ELSE Push(Len(s.facilities) = 0, "At least one facility must be specified")
        errors ==
            Push(MissingOrBlank(s, "id", s.id), "Site ID is required")
            \o Push(MissingOrBlank(s, "name", s.name), "Site name is required")
            \o Push(~Defined(s, "type") \/ s.type = "" \/ s.type \notin {"temple", "gurdwara"},
                    "Site type must be either \"temple\" or \"gurdwara\"")
            \o Push(MissingOrBlank(s, "description", s.description),
                    "Site description is required")
            \o Push(MissingOrBlank(s, "history", s.history), "Site history is required")
            \o locationErrors \o timingsErrors \o facilitiesErrors
    IN Report(errors)

\* mutant of validateCoordinates: only the world-wide ranges are tested
validateCoordinatesWorldOnly(lat, lng) ==
    Report(Push(lat < -900 \/ lat > 900, "Latitude must be between -90 and 90 degrees")
           \o Push(lng < -1800 \/ lng > 1800, "Longitude must be between -180 and 180 degrees"))

\* mutant of validateCoordinates: the region test excludes its own bounds
validateCoordinatesExclusive(lat, lng) ==
    Report(Push(lat < -900 \/ lat > 900, "Latitude must be between -90 and 90 degrees")
           \o Push(lng < -1800 \/ lng > 1800, "Longitude must be between -180 and 180 degrees")
           \o Push(lat <= 290 \/ lat >= 330,
                   "Latitude appears to be outside Punjab region (29N - 33N)")
           \o Push(lng <= 730 \/ lng >= 780,
                   "Longitude appears to be outside Punjab region (73E - 78E)"))

validateCoordinates(lat, lng) ==
    Report(Push(lat < -900 \/ lat > 900, "Latitude must be between -90 and 90 degrees")
           \o Push(lng < -1800 \/ lng > 1800, "Longitude must be between -180 and 180 degrees")
           \o Push(lat < 290 \/ lat > 330,
                   "Latitude appears to be outside Punjab region (29N - 33N)")
           \o Push(lng < 730 \/ lng > 780,
                   "Longitude appears to be outside Punjab region (73E - 78E)"))

StartsWith(s, prefix) == Len(s) >= Len(prefix) /\ SubSeq(s, 1, Len(prefix)) = prefix

LowerAlnum == {Lower[i] : i \in 1..26} \cup Digits

\* [a-z0-9]+(-[a-z0-9]+)*
KebabCase(r) ==
    /\ Len(r) >= 1
    /\ \A i \in 1..Len(r) : r[i] \in LowerAlnum \cup {"-"}
    /\ r[1] # "-" /\ r[Len(r)] # "-"
    /\ \A i \in 1..(Len(r) - 1) : ~(r[i] = "-" /\ r[i + 1] = "-")

\* /^(temple|gurdwara)-[a-z0-9]+(-[a-z0-9]+)*$/.test(id)
idPattern(id) ==
    \E prefix \in {<<"t","e","m","p","l","e","-">>, <<"g","u","r","d","w","a","r","a","-">>} :
        /\ StartsWith(id, prefix)
        /\ KebabCase(SubSeq(id, Len(prefix) + 1, Len(id)))

validateSiteId(id) ==
    IF id = <<>> \/ Trim(id) = <<>>
    THEN [isValid |-> FALSE, errors |-> <<"Site ID cannot be empty">>]
    ELSE Report(Push(~idPattern(id),
                     "Site ID must follow format: \"temple-\" or \"gurdwara-\" followed by kebab-case name")
                \o Push(Len(id) < 5, "Site ID must be at least 5 characters long")
                \o Push(Len(id) > 100, "Site ID must not exceed 100 characters"))

\* the positions just after a match of \d{1,2}:\d{2}\s*(AM|PM), ignoring
\* case, that starts at position i
TimeEnds(s, i) ==
    {e \in (i + 6)..(Len(s) + 1) :
        \E c \in {i + 1, i + 2} :
            /\ c + 3 <= e - 2
            /\ \A k \in i..(c - 1) : s[k] \in Digits
            /\ s[c] = ":" /\ s[c + 1] \in Digits /\ s[c + 2] \in Digits
            /\ \A k \in (c + 3)..(e - 3) : s[k] \in WhiteSpace
            /\ ToLowerChar(s[e - 2]) \in {"a", "p"} /\ ToLowerChar(s[e - 1]) = "m"}

\* /\d{1,2}:\d{2}\s*(AM|PM)/i.test(timings)
timePattern(s) == \E i \in 1..Len(s) : TimeEnds(s, i) # {}

\* /\d{1,2}:\d{2}\s*(AM|PM)\s*-\s*\d{1,2}:\d{2}\s*(AM|PM)/i.test(timings)
rangePattern(s) ==
    \E i \in 1..Len(s) : \E e \in TimeEnds(s, i) :
        \E d \in e..Len(s) : \E t \in (d + 1)..Len(s) :
            /\ \A k \in e..(d - 1) : s[k] \in WhiteSpace
            /\ s[d] = "-"
            /\ \A k \in (d + 1)..(t - 1) : s[k] \in WhiteSpace
            /\ TimeEnds(s, t) # {}

validateTimings(timings) ==
    IF timings = <<>> \/ Trim(timings) = <<>>
    THEN [isValid |-> FALSE, errors |-> <<"Timings cannot be empty">>]
    ELSE Report(Push(/\ ~timePattern(timings)
                     /\ ~rangePattern(timings)
                     /\ ~Includes(ToLowerCase(timings), <<"h","o","u","r","s">>),
                     "Timings must include valid time format (e.g., \"9:00 AM - 6:00 PM\" or \"24 hours\")"))

\* the errors of the entries from index i on (the array is 0-based in the messages)
RECURSIVE FacilityEntryErrors(_, _)
FacilityEntryErrors(facilities, i) ==
    IF i > Len(facilities) THEN <<>>
    ELSE Push(facilities[i] = <<>> \/ Trim(facilities[i]) = <<>>,
              "Facility at index " \o ToString(i - 1) \o " is empty or invalid")
         \o FacilityEntryErrors(facilities, i + 1)

\* called on an array (validateCompleteSite passes site.facilities when it is set)
validateFacilities(facilities) ==
    IF Len(facilities) = 0
    THEN [isValid |-> FALSE, errors |-> <<"At least one facility must be specified">>]
    ELSE Report(FacilityEntryErrors(facilities, 1))

\* /^\+91-\d{4}-\d{6}$/.test(phone)
phonePattern(phone) ==
    /\ Len(phone) = 15
    /\ SubSeq(phone, 1, 4) = <<"+","9","1","-">>
    /\ \A k \in 5..8 : phone[k] \in Digits
    /\ phone[9] = "-"
    /\ \A k \in 10..15 : phone[k] \in Digits

validatePhoneNumber(phone) ==
    IF phone = <<>> \/ Trim(phone) = <<>>
    THEN [isValid |-> FALSE, errors |-> <<"Phone number cannot be empty">>]
    ELSE Report(Push(~phonePattern(phone), "Phone number must follow format: +91-XXXX-XXXXXX"))

\* /^[^\s@]+@[^\s@]+\.[^\s@]+$/.test(email)
emailPattern(email) ==
    \E a \in 2..Len(email) : \E d \in (a + 2)..(Len(email) - 1) :
        /\ email[a] = "@" /\ email[d] = "."
        /\ \A k \in 1..Len(email) : k # a => email[k] \notin WhiteSpace \cup {"@"}

validateEmail(email) ==
    IF email = <<>> \/ Trim(email) = <<>>
    THEN [isValid |-> FALSE, errors |-> <<"Email cannot be empty">>]
    ELSE Report(Push(~emailPattern(email),
                     "Email must be in valid format (e.g., example@domain.com)"))

\* mutant of validateCompleteSite: a warning makes the record invalid
validateCompleteSiteStrict(s) ==
    LET basicValidation == validateReligiousSite(s)
        detailed ==
            (IF ~Falsy(s, "id", s.id) THEN validateSiteId(s.id).errors ELSE <<>>)
            \o (IF Defined(s, "location") /\ Defined(s, "location.coordinates")
                THEN validateCoordinates(s.lat, s.lng).errors ELSE <<>>)
            \o (IF Defined(s, "timings") /\ ~Falsy(s, "timings.weekdays", s.weekdays)
                THEN validateTimings(s.weekdays).errors ELSE <<>>)
            \o (IF Defined(s, "timings") /\ ~Falsy(s, "timings.weekends", s.weekends)
                THEN validateTimings(s.weekends).errors ELSE <<>>)
            \o (IF Defined(s, "facilities") THEN validateFacilities(s.facilities).errors ELSE <<>>)
            \o (IF Defined(s, "contact") /\ ~Falsy(s, "contact.phone", s.phone)
                THEN validatePhoneNumber(s.phone).errors ELSE <<>>)
            \o (IF Defined(s, "contact") /\ ~Falsy(s, "contact.email", s.email)
                THEN validateEmail(s.email).errors ELSE <<>>)
        recommended ==
            Push(\/ ~Defined(s, "contact")
                 \/ (Falsy(s, "contact.phone", s.phone) /\ Falsy(s, "contact.email", s.email)),
                 "Contact information (phone or email) is recommended")
            \o Push(~Defined(s, "images") \/ Len(s.images) = 0,
                    "Images are recommended for better user experience")
            \o Push(~Falsy(s, "description", s.description) /\ Len(s.description) < 50,
                    "Description should be at least 50 characters for better information")
            \o Push(~Falsy(s, "history", s.history) /\ Len(s.history) < 100,
                    "History should be at least 100 characters for comprehensive information")
        errors == basicValidation.errors \o (IF basicValidation.isValid THEN detailed ELSE <<>>)
        warnings == IF basicValidation.isValid THEN recommended ELSE <<>>
    IN [isValid |-> errors = <<>> /\ warnings = <<>>, errors |-> errors, warnings |-> warnings]

validateCompleteSite(s) ==
    LET basicValidation == validateReligiousSite(s)
        detailed ==
            (IF ~Falsy(s, "id", s.id) THEN validateSiteId(s.id).errors ELSE <<>>)
            \o (IF Defined(s, "location") /\ Defined(s, "location.coordinates")
                THEN validateCoordinates(s.lat, s.lng).errors ELSE <<>>)
            \o (IF Defined(s, "timings") /\ ~Falsy(s, "timings.weekdays", s.weekdays)
                THEN validateTimings(s.weekdays).errors ELSE <<>>)
            \o (IF Defined(s, "timings") /\ ~Falsy(s, "timings.weekends", s.weekends)
                THEN validateTimings(s.weekends).errors ELSE <<>>)
            \o (IF Defined(s, "facilities") THEN validateFacilities(s.facilities).errors ELSE <<>>)
            \o (IF Defined(s, "contact") /\ ~Falsy(s, "contact.phone", s.phone)
                THEN validatePhoneNumber(s.phone).errors ELSE <<>>)
            \o (IF Defined(s, "contact") /\ ~Falsy(s, "contact.email", s.email)
                THEN validateEmail(s.email).errors ELSE <<>>)
        recommended ==
            Push(\/ ~Defined(s, "contact")
                 \/ (Falsy(s, "contact.phone", s.phone) /\ Falsy(s, "contact.email", s.email)),
                 "Contact information (phone or email) is recommended")
            \o Push(~Defined(s, "images") \/ Len(s.images) = 0,
                    "Images are recommended for better user experience")
            \o Push(~Falsy(s, "description", s.description) /\ Len(s.description) < 50,
                    "Description should be at least 50 characters for better information")
            \o Push(~Falsy(s, "history", s.history) /\ Len(s.history) < 100,
                    "History should be at least 100 characters for comprehensive information")
        errors == basicValidation.errors \o (IF basicValidation.isValid THEN detailed ELSE <<>>)
        warnings == IF basicValidation.isValid THEN recommended ELSE <<>>
    IN [isValid |-> errors = <<>>, errors |-> errors, warnings |-> warnings]

(***************************************************************************)
(* What the validator does on values that are not of the declared type.    *)
(* A record whose `kind` is "null" stands for null, one whose kind is      *)
(* "primitive" for a number in the place of a record (every property of    *)
(* it reads as undefined). `numeric` holds the paths of string properties  *)
(* whose value is a non-zero number: such a value is truthy and has no     *)
(* trim method, so `value.trim()` raises a TypeError.                      *)
(***************************************************************************)
Null == [EmptyObject EXCEPT !.kind = "null"]

Primitive == [EmptyObject EXCEPT !.kind = "primitive"]

NotAString(s, path) == Defined(s, path) /\ path \in s.numeric

\* validateReligiousSite(site) raises instead of returning
validateReligiousSiteThrows(s) ==
    \/ s.kind = "null"
    \/ \E path \in {"id", "name", "description", "history"} : NotAString(s, path)
    \/ /\ Defined(s, "location")
       /\ \E path \in {"location.address", "location.city"} : NotAString(s, path)
    \/ /\ Defined(s, "timings")
       /\ \E path \in {"timings.weekdays", "timings.weekends"} : NotAString(s, path)

\* validateCompleteSite(site) raises instead of returning
validateCompleteSiteThrows(s) ==
    \/ validateReligiousSiteThrows(s)
    \/ /\ Defined(s, "contact")
       /\ \E path \in {"contact.phone", "contact.email"} : NotAString(s, path)
       /\ validateReligiousSite(s).isValid

\* the entries pushed by sites.forEach from index i on (0-based in the report)
RECURSIVE InvalidSitesFrom(_, _)
InvalidSitesFrom(sites, i) ==
    IF i > Len(sites) THEN <<>>
    ELSE LET v == validateReligiousSite(sites[i])
         IN (IF v.isValid THEN <<>> ELSE <<[index |-> i - 1, errors |-> v.errors]>>)
            \o InvalidSitesFrom(sites, i + 1)

\* mutant of validateSiteCollection: the loop ends at the first failure
validateSiteCollectionFirstFailure(sites) ==
    LET all == InvalidSitesFrom(sites, 1)
        invalidSites == IF all = <<>> THEN <<>> ELSE <<Head(all)>>
    IN [isValid |-> Len(invalidSites) = 0, invalidSites |-> invalidSites]

validateSiteCollection(sites) ==
    LET invalidSites == InvalidSitesFrom(sites, 1)
    IN [isValid |-> Len(invalidSites) = 0, invalidSites |-> invalidSites]

validateSiteCollectionThrows(sites) ==
    \E i \in 1..Len(sites) : validateReligiousSiteThrows(sites[i])

\* an entry of the invalidSites of validateDatabase; `has` tells whether
\* the optional id is set
InvalidEntry(index, has, id, errors, warnings) ==
    [index |-> index, has |-> has, id |-> id, errors |-> errors, warnings |-> warnings]

Summary(temples, gurdwaras, sitesWithContact, sitesWithImages) ==
    [temples |-> temples, gurdwaras |-> gurdwaras,
     sitesWithContact |-> sitesWithContact, sitesWithImages |-> sitesWithImages]

\* the report returned without reading any record
EmptyReport(message) ==
    [isValid |-> FALSE, totalSites |-> 0, validSites |-> 0,
     invalidSites |-> <<InvalidEntry(-1, {}, <<>>, <<message>>, <<>>)>>,
     summary |-> Summary(0, 0, 0, 0)]

HasContact(s) ==
    /\ Defined(s, "contact")
    /\ ~Falsy(s, "contact.phone", s.phone) \/ ~Falsy(s, "contact.email", s.email)

HasImages(s) == Defined(s, "images") /\ Len(s.images) > 0

\* mutant of Count: every record adds to the counter
CountAlways(condition) == 1

Count(condition) == IF condition THEN 1 ELSE 0

\* the element of a one-element set: Only({e}) is e, computed once and
\* bound by the set constructor that encloses it
Only(set) == CHOOSE element \in set : TRUE

\* mutant of ForEachSite: the summary counters are advanced outside the
\* `if (validation.isValid)` block, for every record
RECURSIVE ForEachSiteCountingAll(_, _, _)
ForEachSiteCountingAll(sites, i, acc) ==
    IF i > Len(sites) THEN acc
    ELSE ForEachSiteCountingAll(sites, i + 1,
            Only({[acc EXCEPT
                     !.validSites = @ + Count(v.isValid),
                     !.temples = @ + Count(s.type = "temple"),
                     !.gurdwaras = @ + Count(s.type = "gurdwara"),
                     !.sitesWithContact = @ + Count(HasContact(s)),
                     !.sitesWithImages = @ + Count(HasImages(s)),
                     !.invalidSites =
                         IF v.isValid THEN @
                         ELSE Append(@, InvalidEntry(i - 1, s.has \cap {"id"}, s.id,
                                                     v.errors, v.warnings))] :
                  s \in {sites[i]}, v \in {validateCompleteSite(sites[i])}}))

\* data.sites.forEach from index i on: acc holds the counters and the
\* invalidSites built so far (the index of the report is 0-based)
RECURSIVE ForEachSite(_, _, _)
ForEachSite(sites, i, acc) ==
    IF i > Len(sites) THEN acc
    ELSE ForEachSite(sites, i + 1,
            Only({IF v.isValid
                  THEN [acc EXCEPT
                          !.validSites = @ + 1,
                          !.temples = @ + Count(s.type = "temple"),
                          !.gurdwaras = @ + Count(s.type = "gurdwara"),
                          !.sitesWithContact = @ + Count(HasContact(s)),
                          !.sitesWithImages = @ + Count(HasImages(s))]
                  ELSE [acc EXCEPT
                          !.invalidSites =
                              Append(@, InvalidEntry(i - 1, s.has \cap {"id"}, s.id,
                                                     v.errors, v.warnings))] :
                  s \in {sites[i]}, v \in {validateCompleteSite(sites[i])}}))

\* mutant of validateDatabase: a missing collection is read as an empty one
validateDatabaseUnguarded(data) ==
    Only({[isValid |-> Len(acc.invalidSites) = 0,
           totalSites |-> Len(data.sites),
           validSites |-> acc.validSites,
           invalidSites |-> acc.invalidSites,
           summary |-> Summary(acc.temples, acc.gurdwaras,
                               acc.sitesWithContact, acc.sitesWithImages)] :
          acc \in {ForEachSite(data.sites, 1,
                      [invalidSites |-> <<>>, validSites |-> 0, temples |-> 0,
                       gurdwaras |-> 0, sitesWithContact |-> 0,
                       sitesWithImages |-> 0])}})

\* data is [shape, sites]: shape "null" is no data, "noSites" an object
\* without sites, "notArray" an object whose sites is an object, "array" an
\* object whose sites is the array `sites`
validateDatabase(data) ==
    IF data.shape # "array"
    THEN EmptyReport("Database structure is invalid - missing sites array")
    ELSE Only({[isValid |-> Len(acc.invalidSites) = 0,
                totalSites |-> Len(data.sites),
                validSites |-> acc.validSites,
                invalidSites |-> acc.invalidSites,
                summary |-> Summary(acc.temples, acc.gurdwaras,
                                    acc.sitesWithContact, acc.sitesWithImages)] :
               acc \in {ForEachSite(data.sites, 1,
                           [invalidSites |-> <<>>, validSites |-> 0, temples |-> 0,
                            gurdwaras |-> 0, sitesWithContact |-> 0,
                            sitesWithImages |-> 0])}})

validateDatabaseThrows(data) ==
    /\ data.shape = "array"
    /\ \E i \in 1..Len(data.sites) : validateCompleteSiteThrows(data.sites[i])

(***************************************************************************)
(* Database accessor (src/src/utils/database.ts). The loader returns       *)
(* [sites, sitesKind, isValid, validationReport, logged]: sitesKind tells  *)
(* what `sites` is ("array", "undefined" or "object") and logged holds the *)
(* messages written with console.error.                                    *)
(***************************************************************************)
Dataset(sites) == [shape |-> "array", sites |-> sites]

\* the try block raises: in validateDatabase, or reading typedData.sites of null
LoadRaises(db) == validateDatabaseThrows(db) \/ db.shape = "null"

\* const { sites } = loadReligiousSitesDatabase()
LoadedSites(db) == IF LoadRaises(db) THEN <<>> ELSE db.sites

\* mutant of loadReligiousSitesDatabase: the catch block returns the records
\* of the data with the report of a failed load
loadReligiousSitesDatabaseKeepingSites(db) ==
    IF LoadRaises(db)
    THEN [sites |-> db.sites, sitesKind |-> "array", isValid |-> FALSE,
          validationReport |-> EmptyReport("Failed to load database file"),
          logged |-> <<"Failed to load religious sites database:">>]
    ELSE [sites |-> db.sites,
          sitesKind |-> CASE db.shape = "array" -> "array"
                          [] db.shape = "noSites" -> "undefined"
                          [] OTHER -> "object",
          isValid |-> validateDatabase(db).isValid,
          validationReport |-> validateDatabase(db),
          logged |-> IF validateDatabase(db).isValid THEN <<>>
                     ELSE <<"Database validation failed:">>]

loadReligiousSitesDatabase(db) ==
    IF LoadRaises(db)
    THEN [sites |-> LoadedSites(db), sitesKind |-> "array", isValid |-> FALSE,
          validationReport |-> EmptyReport("Failed to load database file"),
          logged |-> (IF db.shape = "null" THEN <<"Database validation failed:">> ELSE <<>>)
                     \o <<"Failed to load religious sites database:">>]
    ELSE Only({[sites |-> LoadedSites(db),
                sitesKind |-> CASE db.shape = "array" -> "array"
                                [] db.shape = "noSites" -> "undefined"
                                [] OTHER -> "object",
                isValid |-> validationReport.isValid,
                validationReport |-> validationReport,
                logged |-> IF validationReport.isValid THEN <<>>
                           ELSE <<"Database validation failed:">>] :
               validationReport \in {validateDatabase(db)}})

\* the accessor reads `sites` as an array although it is none
SitesNotArray(db) == ~LoadRaises(db) /\ db.shape # "array"

\* sites.find(site => site.id === id) || null
getSiteById(db, id) ==
    LET sites == LoadedSites(db)
        found == {i \in 1..Len(sites) : Defined(sites[i], "id") /\ sites[i].id = id}
    IN IF found = {} THEN Null
       ELSE sites[CHOOSE i \in found : \A j \in found : i <= j]

getSiteByIdThrows(db) == SitesNotArray(db)

\* the UTF-16 code unit of a character of the model's alphabet
CodeUnit(c) ==
    IF \E i \in 1..26 : Upper[i] = c THEN 64 + (CHOOSE i \in 1..26 : Upper[i] = c)
    ELSE IF \E i \in 1..26 : Lower[i] = c THEN 96 + (CHOOSE i \in 1..26 : Lower[i] = c)
    ELSE CASE c = "\t" -> 9 [] c = "\n" -> 10 [] c = " " -> 32 [] c = "+" -> 43
           [] c = "," -> 44 [] c = "-" -> 45 [] c = "." -> 46
           [] c = "0" -> 48 [] c = "1" -> 49 [] c = "2" -> 50 [] c = "3" -> 51
           [] c = "4" -> 52 [] c = "5" -> 53 [] c = "6" -> 54 [] c = "7" -> 55
           [] c = "8" -> 56 [] c = "9" -> 57 [] c = ":" -> 58 [] c = "@" -> 64

\* the value undefined among strings (an element of a Set or of an array)
Undefined == <<"undefined">>

\* a sorts before b under Array.prototype.sort without a comparator: by
\* code units, a proper prefix first, undefined last
SortsBefore(a, b) ==
    IF a = Undefined \/ b = Undefined THEN a # Undefined /\ b = Undefined
    ELSE \/ Len(a) < Len(b) /\ SubSeq(b, 1, Len(a)) = a
         \/ \E i \in 1..Len(a) :
                /\ i <= Len(b)
                /\ SubSeq(a, 1, i - 1) = SubSeq(b, 1, i - 1)
                /\ CodeUnit(a[i]) < CodeUnit(b[i])

\* Array.from(set).sort()
RECURSIVE Sort(_)
Sort(set) ==
    IF set = {} THEN <<>>
    ELSE LET first == CHOOSE a \in set : \A b \in set \ {a} : SortsBefore(a, b)
         IN <<first>> \o Sort(set \ {first})

\* String.prototype.split with a one-character separator
RECURSIVE Split(_, _)
Split(str, separator) ==
    LET at == {i \in 1..Len(str) : str[i] = separator}
    IN IF at = {} THEN <<str>>
       ELSE LET i == CHOOSE k \in at : \A j \in at : k <= j
            IN <<SubSeq(str, 1, i - 1)>> \o Split(SubSeq(str, i + 1, Len(str)), separator)

\* site.location.city, undefined when the property is missing
CityOf(s) == IF Defined(s, "location.city") THEN s.city ELSE Undefined

\* mutant: the first segment of the address is taken whether or not the
\* address holds a comma
getUniqueLocationsEverySegment(db) ==
    LET sites == LoadedSites(db)
        Area(s) ==
            LET addressParts == Split(s.address, ",")
                area == Trim(addressParts[1])
            IN IF area # <<>> /\ area # CityOf(s) THEN {area} ELSE {}
    IN Sort(UNION {{CityOf(sites[i])} \cup Area(sites[i]) : i \in 1..Len(sites)})

getUniqueLocations(db) ==
    LET sites == LoadedSites(db)
        Area(s) ==
            LET addressParts == Split(s.address, ",")
                area == Trim(addressParts[1])
            IN IF Len(addressParts) > 1 /\ area # <<>> /\ area # CityOf(s)
               THEN {area} ELSE {}
        locations == UNION {{CityOf(sites[i])} \cup Area(sites[i]) : i \in 1..Len(sites)}
    IN Sort(locations)

\* site.location.city of a record without location, or split of a missing address
getUniqueLocationsThrows(db) ==
    \/ SitesNotArray(db)
    \/ \E i \in 1..Len(LoadedSites(db)) :
           \/ ~Defined(LoadedSites(db)[i], "location")
           \/ ~Defined(LoadedSites(db)[i], "location.address")

\* lengths.reduce((sum, length) => sum + length, 0)
RECURSIVE Reduce(_, _)
Reduce(lengths, sum) ==
    IF lengths = <<>> THEN sum ELSE Reduce(Tail(lengths), sum + Head(lengths))

NaN == "NaN"

\* Math.round(total / count) of two non-negative integers: 0 / 0 is NaN
RoundedAverage(total, count) ==
    IF count = 0 THEN NaN ELSE (2 * total + count) \div (2 * count)

getDatabaseStats(db) ==
    LET sites == LoadedSites(db)
        totalDescriptionLength ==
            Reduce([i \in 1..Len(sites) |-> Len(sites[i].description)], 0)
        totalHistoryLength == Reduce([i \in 1..Len(sites) |-> Len(sites[i].history)], 0)
        allFacilities ==
            UNION {IF Defined(sites[i], "facilities")
                   THEN Range(sites[i].facilities) ELSE {Undefined} : i \in 1..Len(sites)}
    IN Only({[totalSites |-> validationReport.totalSites,
              temples |-> validationReport.summary.temples,
              gurdwaras |-> validationReport.summary.gurdwaras,
              sitesWithContact |-> validationReport.summary.sitesWithContact,
              sitesWithImages |-> validationReport.summary.sitesWithImages,
              averageDescriptionLength |-> RoundedAverage(totalDescriptionLength, Len(sites)),
              averageHistoryLength |-> RoundedAverage(totalHistoryLength, Len(sites)),
              uniqueFacilities |-> Sort(allFacilities)] :
             validationReport \in {loadReligiousSitesDatabase(db).validationReport}})

\* site.description.length or site.history.length of a missing property
getDatabaseStatsThrows(db) ==
    \/ SitesNotArray(db)
    \/ \E i \in 1..Len(LoadedSites(db)) :
           \/ ~Defined(LoadedSites(db)[i], "description")
           \/ ~Defined(LoadedSites(db)[i], "history")

\* mutant: the search term is the trimmed query
MatchesTrimmedSearchTerm(s, searchTerm) ==
    \/ Includes(ToLowerCase(s.name), Trim(searchTerm))
    \/ Includes(ToLowerCase(s.description), Trim(searchTerm))
    \/ Includes(ToLowerCase(s.address), Trim(searchTerm))
    \/ Includes(ToLowerCase(s.city), Trim(searchTerm))
    \/ Includes(ToLowerCase(s.history), Trim(searchTerm))

\* the predicate of the text search: any of the five fields holds the term
MatchesSearchTerm(s, searchTerm) ==
    \/ Includes(ToLowerCase(s.name), searchTerm)
    \/ Includes(ToLowerCase(s.description), searchTerm)
    \/ Includes(ToLowerCase(s.address), searchTerm)
    \/ Includes(ToLowerCase(s.city), searchTerm)
    \/ Includes(ToLowerCase(s.history), searchTerm)

\* the predicate of the location search: city or address holds the term
MatchesLocationTerm(s, locationTerm) ==
    \/ Includes(ToLowerCase(s.city), locationTerm)
    \/ Includes(ToLowerCase(s.address), locationTerm)

\* mutant: `some` written for `every`
HasSomeFacility(s, facilities) ==
    \E i \in 1..Len(facilities) :
        \E j \in 1..Len(s.facilities) :
            Includes(ToLowerCase(s.facilities[j]), ToLowerCase(facilities[i]))

\* facilities.every(f => site.facilities.some(sf => sf.toLowerCase().includes(f.toLowerCase())))
HasEveryFacility(s, facilities) ==
    \A i \in 1..Len(facilities) :
        \E j \in 1..Len(s.facilities) :
            Includes(ToLowerCase(s.facilities[j]), ToLowerCase(facilities[i]))

getSitesByType(db, type) ==
    LET sites == LoadedSites(db)
        Test(s) == s.type = type
    IN SelectSeq(sites, Test)

getSitesByLocation(db, location) ==
    LET sites == LoadedSites(db)
        searchTerm == ToLowerCase(location)
        Test(s) == MatchesLocationTerm(s, searchTerm)
    IN SelectSeq(sites, Test)

searchSites(db, query) ==
    LET sites == LoadedSites(db)
        searchTerm == ToLowerCase(query)
        Test(s) == MatchesSearchTerm(s, searchTerm)
    IN SelectSeq(sites, Test)

getSitesByFacilities(db, facilities) ==
    LET sites == LoadedSites(db)
        Test(s) == HasEveryFacility(s, facilities)
    IN SelectSeq(sites, Test)

\* mutant: the guard tests filters.query without trimming it
ApplyTextFilterUntrimmedGuard(filtered, filters) ==
    IF filters.query # <<>>
    THEN LET searchTerm == ToLowerCase(filters.query)
             Test(s) == MatchesSearchTerm(s, searchTerm)
         IN SelectSeq(filtered, Test)
    ELSE filtered

\* the four steps of filterSites, each narrowing the working array
ApplyTextFilter(filtered, filters) ==
    IF filters.query # <<>> /\ Trim(filters.query) # <<>>
    THEN LET searchTerm == ToLowerCase(filters.query)
             Test(s) == MatchesSearchTerm(s, searchTerm)
         IN SelectSeq(filtered, Test)
    ELSE filtered

\* mutant: the comparison of the type filter inverted
ApplyTypeFilterInverted(filtered, filters) ==
    IF filters.type # "" /\ filters.type # "all"
    THEN LET Test(s) == s.type # filters.type
         IN SelectSeq(filtered, Test)
    ELSE filtered

ApplyTypeFilter(filtered, filters) ==
    IF filters.type # "" /\ filters.type # "all"
    THEN LET Test(s) == s.type = filters.type
         IN SelectSeq(filtered, Test)
    ELSE filtered

ApplyLocationFilter(filtered, filters) ==
    IF filters.location # <<>> /\ Trim(filters.location) # <<>>
    THEN LET locationTerm == ToLowerCase(filters.location)
             Test(s) == MatchesLocationTerm(s, locationTerm)
         IN SelectSeq(filtered, Test)
    ELSE filtered

ApplyFacilitiesFilter(filtered, filters) ==
    IF Len(filters.facilities) > 0
    THEN LET Test(s) == HasEveryFacility(s, filters.facilities)
         IN SelectSeq(filtered, Test)
    ELSE filtered

\* mutant: the location and facilities steps filter `sites`, not the working array
filterSitesFromSites(db, filters) ==
    LET sites == LoadedSites(db)
        afterLocation == ApplyLocationFilter(sites, filters)
    IN ApplyFacilitiesFilter(afterLocation, filters)

\* mutant: the result is returned in the opposite order
filterSitesReversed(db, filters) ==
    LET sites == LoadedSites(db)
        afterText == ApplyTextFilter(sites, filters)
        afterType == ApplyTypeFilter(afterText, filters)
        afterLocation == ApplyLocationFilter(afterType, filters)
        kept == ApplyFacilitiesFilter(afterLocation, filters)
    IN [i \in 1..Len(kept) |-> kept[Len(kept) + 1 - i]]

filterSites(db, filters) ==
    LET sites == LoadedSites(db)
        afterText == ApplyTextFilter(sites, filters)
        afterType == ApplyTypeFilter(afterText, filters)
        afterLocation == ApplyLocationFilter(afterType, filters)
    IN ApplyFacilitiesFilter(afterLocation, filters)

(***************************************************************************)
(* The datasets and the queries the model runs.                            *)
(***************************************************************************)
SampleSites ==
    { ReligiousSite(<<"t","e","m","p","l","e","-","a">>, <<"A","b">>, "temple",
                    <<"E"," ","f">>, <<"G","h">>, <<"c"," ","d">>, <<"i">>,
                    << <<"P","k">>, <<"H","a">> >>),
      ReligiousSite(<<"g","u","r","d","w","a","r","a","-","b">>, <<"a","b"," ","c">>, "gurdwara",
                    <<"g","h">>, <<"E">>, <<"x">>, <<"I"," ","j">>,
                    << <<"p","k">> >>),
      ReligiousSite(<<"t","e","m","p","l","e","-","x">>, <<"x">>, "temple",
                    <<"x">>, <<"x">>, <<"x">>, <<"x">>,
                    << >>),
      ReligiousSite(<<"g","u","r","d","w","a","r","a","-","d">>, <<"X">>, "gurdwara",
                    <<"y">>, <<"g","H">>, <<"a","b">>, <<"c","d">>,
                    << <<"H","a">>, <<"L","a">> >>),
      ReligiousSite(<<"t","e","m","p","l","e","-","e">>, <<"y"," ","b">>, "temple",
                    <<"f">>, <<"f">>, <<"Y">>, <<"A","B">>,
                    << <<"L","a"," ","p","k">> >>) }

SeqsUpTo(S, n) == UNION {[1..k -> S] : k \in 0..n}

Datasets == {Dataset(ss) : ss \in SeqsUpTo(SampleSites, MaxSites)}

Queries ==
    { <<>>, <<" ">>, <<" "," ">>, <<"a">>, <<"A","B">>, <<" ","c">>, <<"i">>, <<"x">> }

SiteTypes == {"temple", "gurdwara"}

TypeChoices == {"all"} \cup SiteTypes

Locations ==
    { <<>>, <<" ">>, <<"e">>, <<"G","H">>, <<"x">> }

FacilityLists ==
    { << >>, << <<"p">> >>, << <<"p","k">>, <<"h","a">> >>,
      << <<"L","a">>, <<"P">> >>, << <<>> >> }

AllFilters ==
    {SearchFilters(q, t, l, f) :
        q \in Queries, t \in TypeChoices, l \in Locations, f \in FacilityLists}

(***************************************************************************)
(* The accessor's calls. Each call is synchronous and builds a fresh       *)
(* array; Return hands it to the caller, after which the next call starts. *)
(* A one-argument accessor records its argument in the SearchFilters field *)
(* of the same meaning.                                                    *)
(***************************************************************************)
Idle == [op |-> "idle", filters |-> NoFilters, id |-> <<>>, threw |-> FALSE]

Invoke(op, filters, returned) ==
    /\ call.op = "idle"
    /\ call' = [Idle EXCEPT !.op = op, !.filters = filters]
    /\ result' = returned
    /\ UNCHANGED <<uiVars, religiousSitesData, site, validation>>

\* mutant: the filter narrows the dataset's own array instead of a copy of it
FilterSitesInPlace(filters) ==
    /\ call.op = "idle"
    /\ call' = [Idle EXCEPT !.op = "filterSites", !.filters = filters]
    /\ result' = filterSites(religiousSitesData, filters)
    /\ religiousSitesData' = Dataset(result')
    /\ UNCHANGED <<uiVars, site, validation>>

FilterSites(filters) ==
    Invoke("filterSites", filters, filterSites(religiousSitesData, filters))

SearchSites(query) ==
    Invoke("searchSites", [NoFilters EXCEPT !.query = query],
           searchSites(religiousSitesData, query))

GetSitesByType(type) ==
    Invoke("getSitesByType", [NoFilters EXCEPT !.type = type],
           getSitesByType(religiousSitesData, type))

GetSitesByLocation(location) ==
    Invoke("getSitesByLocation", [NoFilters EXCEPT !.location = location],
           getSitesByLocation(religiousSitesData, location))

GetSitesByFacilities(facilities) ==
    Invoke("getSitesByFacilities", [NoFilters EXCEPT !.facilities = facilities],
           getSitesByFacilities(religiousSitesData, facilities))

Return ==
    /\ call.op # "idle"
    /\ call' = Idle
    /\ result' = <<>>
    /\ UNCHANGED <<uiVars, religiousSitesData, site, validation>>

\* the components before the page is shown: every useState holds its
\* initial value, nothing is stored and no timer is pending
Unmounted ==
    /\ currentFilters = NoFilters
    /\ filteredSites = <<>>
    /\ selectedSite = Null
    /\ isDetailCardOpen = FALSE
    /\ viewMode = "table"
    /\ showHowToUse = FALSE
    /\ searchQuery = <<>>
    /\ searchHistory = <<>>
    /\ suggestions = <<>>
    /\ showSuggestions = FALSE
    /\ sortField = "name"
    /\ sortDirection = "asc"
    /\ isGuideOpen = FALSE
    /\ hasSeenGuide = FALSE
    /\ currentStep = 0
    /\ guideSeen = FALSE
    /\ timer = FALSE
    /\ handler = "none"

NoValidation ==
    [fn |-> "none", threw |-> FALSE, isValid |-> FALSE, errors |-> <<>>, warnings |-> <<>>]

\* the call of fn ended with a TypeError instead of a report
Thrown(fn) == [fn |-> fn, threw |-> TRUE]

Init ==
    /\ religiousSitesData \in Datasets
    /\ call = Idle
    /\ result = <<>>
    /\ site = EmptyObject
    /\ validation = NoValidation
    /\ Unmounted

Next ==
    \/ \E filters \in AllFilters : FilterSites(filters)
    \/ \E query \in Queries : SearchSites(query)
    \/ \E type \in SiteTypes : GetSitesByType(type)
    \/ \E location \in Locations : GetSitesByLocation(location)
    \/ \E facilities \in FacilityLists : GetSitesByFacilities(facilities)
    \/ Return

Spec == Init /\ [][Next]_vars

(***************************************************************************)
(* The records the validator is run on: the record of the validator's      *)
(* acceptance example and the empty object, each with up to MaxDeviations  *)
(* properties removed or set to another value.                             *)
(***************************************************************************)
ValidSite ==
    [EmptyObject EXCEPT
        !.has = RequiredPaths,
        !.id = <<"t","e","m","p","l","e","-","t","e","s","t","-","s","i","t","e">>,
        !.name = <<"T","e","s","t"," ","T","e","m","p","l","e">>,
        !.type = "temple",
        !.address = <<"1"," ","T","e","s","t"," ","S","t">>,
        !.city = <<"D","a","s","u","y","a">>,
        !.lat = 315, !.lng = 759,
        !.description = <<"A"," ","t","e","s","t">>,
        !.history = <<"B","u","i","l","t">>,
        !.weekdays = <<"6",":","0","0"," ","A","M"," ","-"," ","8",":","0","0"," ","P","M">>,
        !.weekends = <<"5",":","0","0"," ","A","M"," ","-"," ","9",":","0","0"," ","P","M">>,
        !.facilities = << <<"P","a","r","k","i","n","g">> >>]

\* "temple-" followed by n times "a"
TempleId(n) == [i \in 1..(7 + n) |-> IF i <= 7 THEN <<"t","e","m","p","l","e","-">>[i] ELSE "a"]

IdValues ==
    { <<>>, <<" ">>, <<"t","e","s","t","-","1">>, <<"t","e","m","p","l","e","-","a","-","-","b">>,
      TempleId(93), TempleId(94) }

BlankStrings == { <<>>, <<" ">> }

\* a text of n characters
LongText(n) == [i \in 1..n |-> "a"]

LatValues == {450, 290, 330, 289}

LngValues == {730, 780, 781}

WeekdayValues ==
    { <<" ">>, <<"2","4"," ","h","o","u","r","s">>, <<"6",":","0","0"," ","A","M">>,
      <<"d","a","w","n">> }

WeekendValues == { <<"d","a","w","n">>, <<"6",":","3","0","p","m","-","1","1",":","0","0","P","M">> }

FacilityValues ==
    { << >>, << <<>> >>, << <<" ">> >>,
      << <<"P","a","r","k","i","n","g">>, <<"H","a","l","l">> >> }

PhoneValues ==
    { <<"+","9","1","-","1","8","8","2","-","1","2","3","4","5","6">>,
      <<"1","8","8","2","1","2","3","4","5","6">> }

EmailValues == { <<"a","@","b",".","c">>, <<"a","@","b">> }

\* the paths an object path brings with it
Under(path) ==
    CASE path = "location" ->
            {"location", "location.address", "location.city", "location.coordinates",
             "location.coordinates.lat", "location.coordinates.lng"}
      [] path = "location.coordinates" ->
            {"location.coordinates", "location.coordinates.lat", "location.coordinates.lng"}
      [] path = "timings" ->
            {"timings", "timings.weekdays", "timings.weekends", "timings.specialDays"}
      [] path = "contact" -> {"contact", "contact.phone", "contact.email"}
      [] OTHER -> {path}

\* the objects a path lies in
Above(path) ==
    CASE path \in {"location.address", "location.city", "location.coordinates"} -> {"location"}
      [] path \in {"location.coordinates.lat", "location.coordinates.lng"} ->
            {"location", "location.coordinates"}
      [] path \in {"timings.weekdays", "timings.weekends", "timings.specialDays"} -> {"timings"}
      [] path \in {"contact.phone", "contact.email"} -> {"contact"}
      [] OTHER -> {}

\* the field of the model record that holds the value of a leaf path
FieldOf(path) ==
    CASE path = "location.address" -> "address"
      [] path = "location.city" -> "city"
      [] path = "location.coordinates.lat" -> "lat"
      [] path = "location.coordinates.lng" -> "lng"
      [] path = "timings.weekdays" -> "weekdays"
      [] path = "timings.weekends" -> "weekends"
      [] path = "timings.specialDays" -> "specialDays"
      [] path = "contact.phone" -> "phone"
      [] path = "contact.email" -> "email"
      [] OTHER -> path

\* delete obj.path
Without(s, path) ==
    LET has == s.has \ Under(path)
    IN CASE path = "location" ->
                [s EXCEPT !.has = has, !.address = <<>>, !.city = <<>>, !.lat = 0, !.lng = 0]
         [] path = "location.coordinates" -> [s EXCEPT !.has = has, !.lat = 0, !.lng = 0]
         [] path = "timings" ->
                [s EXCEPT !.has = has, !.weekdays = <<>>, !.weekends = <<>>, !.specialDays = <<>>]
         [] path = "contact" -> [s EXCEPT !.has = has, !.phone = <<>>, !.email = <<>>]
         [] OTHER -> [s EXCEPT !.has = has, ![FieldOf(path)] = EmptyObject[FieldOf(path)]]

\* obj.path = value, the enclosing objects created when they are missing
With(s, path, value) ==
    [s EXCEPT !.has = @ \cup Above(path) \cup {path}, ![FieldOf(path)] = value]

\* obj.contact = {} when there is no contact block
WithContact(s) == [s EXCEPT !.has = @ \cup {"contact"}]

\* one change of one property: the property deleted, or set to str (a
\* string property), num (a coordinate) or list (facilities, images); a
\* change of the type turns temple into gurdwara and anything else into an
\* unknown type
Change(path, drop, str, num, list) ==
    [path |-> path, drop |-> drop, str |-> str, num |-> num, list |-> list]

Changes ==
    {Change(path, TRUE, <<>>, 0, <<>>) : path \in RequiredPaths}
    \cup {Change("id", FALSE, v, 0, <<>>) : v \in IdValues}
    \cup {Change("name", FALSE, v, 0, <<>>) : v \in BlankStrings}
    \cup {Change(path, FALSE, <<" ">>, 0, <<>>) :
            path \in {"description", "history", "location.address", "location.city"}}
    \cup {Change("description", FALSE, LongText(50), 0, <<>>),
          Change("history", FALSE, LongText(100), 0, <<>>)}
    \cup {Change("type", FALSE, <<>>, 0, <<>>)}
    \cup {Change("location.coordinates.lat", FALSE, <<>>, v, <<>>) : v \in LatValues}
    \cup {Change("location.coordinates.lng", FALSE, <<>>, v, <<>>) : v \in LngValues}
    \cup {Change("timings.weekdays", FALSE, v, 0, <<>>) : v \in WeekdayValues}
    \cup {Change("timings.weekends", FALSE, v, 0, <<>>) : v \in WeekendValues}
    \cup {Change("timings.specialDays", FALSE, <<"d","a","w","n">>, 0, <<>>)}
    \cup {Change("facilities", FALSE, <<>>, 0, v) : v \in FacilityValues}
    \cup {Change("contact", FALSE, <<>>, 0, <<>>)}
    \cup {Change("contact.phone", FALSE, v, 0, <<>>) : v \in PhoneValues}
    \cup {Change("contact.email", FALSE, v, 0, <<>>) : v \in EmailValues}
    \cup {Change("images", FALSE, <<>>, 0, << <<"x">> >>)}

Apply(s, c) ==
    IF c.drop THEN Without(s, c.path)
    ELSE CASE c.path = "contact" -> WithContact(s)
           [] c.path = "type" -> With(s, "type", IF s.type = "temple" THEN "gurdwara" ELSE "invalid")
           [] c.path \in {"location.coordinates.lat", "location.coordinates.lng"} ->
                With(s, c.path, c.num)
           [] c.path \in {"facilities", "images"} -> With(s, c.path, c.list)
           [] OTHER -> With(s, c.path, c.str)

RECURSIVE ApplyAll(_, _)
ApplyAll(s, cs) == IF cs = <<>> THEN s ELSE ApplyAll(Apply(s, Head(cs)), Tail(cs))

(***************************************************************************)
(* The validator's calls on the record at hand.                            *)
(***************************************************************************)
ValidateReligiousSite ==
    /\ validation' = IF validateReligiousSiteThrows(site)
                     THEN Thrown("validateReligiousSite")
                     ELSE [fn |-> "validateReligiousSite", threw |-> FALSE,
                           isValid |-> validateReligiousSite(site).isValid,
                           errors |-> validateReligiousSite(site).errors,
                           warnings |-> <<>>]
    /\ UNCHANGED <<uiVars, religiousSitesData, call, result, site>>

ValidateCompleteSite ==
    /\ validation' = IF validateCompleteSiteThrows(site)
                     THEN Thrown("validateCompleteSite")
                     ELSE [fn |-> "validateCompleteSite", threw |-> FALSE,
                           isValid |-> validateCompleteSite(site).isValid,
                           errors |-> validateCompleteSite(site).errors,
                           warnings |-> validateCompleteSite(site).warnings]
    /\ UNCHANGED <<uiVars, religiousSitesData, call, result, site>>

InitValidate ==
    /\ religiousSitesData = Dataset(<<>>)
    /\ call = Idle
    /\ result = <<>>
    /\ \E base \in {ValidSite, EmptyObject} :
           \E n \in 0..MaxDeviations : \E cs \in [1..n -> Changes] :
               site = ApplyAll(base, cs)
    /\ validation = NoValidation
    /\ Unmounted

NextValidate ==
    \/ ValidateReligiousSite
    \/ ValidateCompleteSite

SpecValidate == InitValidate /\ [][NextValidate]_vars

(***************************************************************************)
(* The collection validators, the loader and the accessors that read the   *)
(* loaded collection, run on JSON data of any shape: the data is no        *)
(* object, has no `sites`, has a `sites` that is no array, or has an array *)
(* of up to MaxSites entries, each a record, null or a number.             *)
(***************************************************************************)
SecondSite ==
    [ValidSite EXCEPT
        !.has = RequiredPaths \cup {"contact", "contact.phone", "images"},
        !.id = <<"g","u","r","d","w","a","r","a","-","b">>,
        !.type = "gurdwara",
        !.address = <<" ","T","a","n","d","a"," ",",","R","d">>,
        !.phone = <<"+","9","1","-","1","8","8","2","-","1","2","3","4","5","6">>,
        !.images = << <<"b",".","j","p","g">> >>]

\* complete but outside the region; the first segment of its address is its city
OutOfRegionSite ==
    [ValidSite EXCEPT
        !.id = <<"t","e","m","p","l","e","-","c">>,
        !.address = <<"D","a","s","u","y","a",","," ","P","b">>,
        !.lat = 450]

\* the first segment of its address is empty
CommaFirstSite ==
    [ValidSite EXCEPT
        !.id = <<"g","u","r","d","w","a","r","a","-","d">>,
        !.type = "gurdwara",
        !.address = <<",","R","d">>,
        !.city = <<"M","u","k","e","r","i","a","n">>]

\* { ...validSite, id: 123 }
NumericIdSite == [ValidSite EXCEPT !.numeric = {"id"}, !.id = <<>>]

\* { ...validSite, contact: { phone: 123 } }
NumericPhoneSite ==
    [ValidSite EXCEPT !.has = RequiredPaths \cup {"contact", "contact.phone"},
                      !.numeric = {"contact.phone"}]

Entries ==
    { ValidSite, SecondSite, OutOfRegionSite, CommaFirstSite, EmptyObject,
      Null, Primitive, NumericIdSite, NumericPhoneSite }

DatabaseInputs ==
    {Dataset(ss) : ss \in SeqsUpTo(Entries, MaxSites)}
    \cup {[shape |-> shape, sites |-> <<>>] : shape \in {"null", "noSites", "notArray"}}

SiteIds == {ValidSite.id, SecondSite.id, <<"t","e","m","p","l","e","-","z">>}

ValidateSiteCollection ==
    /\ religiousSitesData.shape = "array"
    /\ validation' =
          IF validateSiteCollectionThrows(religiousSitesData.sites)
          THEN Thrown("validateSiteCollection")
          ELSE [fn |-> "validateSiteCollection", threw |-> FALSE,
                report |-> validateSiteCollection(religiousSitesData.sites)]
    /\ UNCHANGED <<uiVars, religiousSitesData, call, result, site>>

ValidateDatabase ==
    /\ validation' =
          IF validateDatabaseThrows(religiousSitesData)
          THEN Thrown("validateDatabase")
          ELSE [fn |-> "validateDatabase", threw |-> FALSE,
                report |-> validateDatabase(religiousSitesData)]
    /\ UNCHANGED <<uiVars, religiousSitesData, call, result, site>>

\* the whole body is inside try/catch and the catch block only logs and
\* returns a literal
LoadReligiousSitesDatabase ==
    /\ validation' = [fn |-> "loadReligiousSitesDatabase", threw |-> FALSE,
                      report |-> loadReligiousSitesDatabase(religiousSitesData)]
    /\ UNCHANGED <<uiVars, religiousSitesData, call, result, site>>

\* a call of an accessor that may raise: nothing is returned when it does
InvokeUnchecked(op, id, threw, returned) ==
    /\ call.op = "idle"
    /\ call' = [Idle EXCEPT !.op = op, !.id = id, !.threw = threw]
    /\ result' = IF threw THEN <<>> ELSE returned
    /\ UNCHANGED <<uiVars, religiousSitesData, site, validation>>

GetSiteById(id) ==
    InvokeUnchecked("getSiteById", id, getSiteByIdThrows(religiousSitesData),
                    getSiteById(religiousSitesData, id))

GetUniqueLocations ==
    InvokeUnchecked("getUniqueLocations", <<>>, getUniqueLocationsThrows(religiousSitesData),
                    getUniqueLocations(religiousSitesData))

GetDatabaseStats ==
    InvokeUnchecked("getDatabaseStats", <<>>, getDatabaseStatsThrows(religiousSitesData),
                    getDatabaseStats(religiousSitesData))

InitDatabase ==
    /\ religiousSitesData \in DatabaseInputs
    /\ call = Idle
    /\ result = <<>>
    /\ site = IF religiousSitesData.sites = <<>> THEN EmptyObject
              ELSE religiousSitesData.sites[1]
    /\ validation = NoValidation
    /\ Unmounted

NextDatabase ==
    \/ ValidateReligiousSite
    \/ ValidateCompleteSite
    \/ ValidateSiteCollection
    \/ ValidateDatabase
    \/ LoadReligiousSitesDatabase
    \/ \E id \in SiteIds : GetSiteById(id)
    \/ GetUniqueLocations
    \/ GetDatabaseStats
    \/ Return

SpecDatabase == InitDatabase /\ [][NextDatabase]_vars

(***************************************************************************)
(* The directory page (src/src/components/directory/DirectoryPage.tsx)     *)
(* and its components. Each action is one event handler together with the  *)
(* effects React runs after it: the filter effect of the page recomputes   *)
(* filteredSites whenever currentFilters has been set.                     *)
(***************************************************************************)
\* the records of the page: a temple with two facilities, a temple without
\* facilities and a gurdwara, whose names differ in case only from each other
DirectorySites ==
    << ReligiousSite(<<"g","u","r","d","w","a","r","a","-","d">>, <<"X">>, "gurdwara",
                     <<"y">>, <<"g","H">>, <<"a","b">>, <<"c","d">>,
                     << <<"H","a">> >>),
       ReligiousSite(<<"t","e","m","p","l","e","-","a">>, <<"A","b">>, "temple",
                     <<"E"," ","f">>, <<"G","h">>, <<"c"," ","d">>, <<"i">>,
                     << <<"P","k">>, <<"H","a">> >>),
       ReligiousSite(<<"t","e","m","p","l","e","-","x">>, <<"x">>, "temple",
                     <<"x">>, <<"x">>, <<"x">>, <<"x">>,
                     << >>) >>

\* after the load effect of the page: sites and filteredSites hold the
\* loaded collection
PageLoaded ==
    /\ currentFilters = NoFilters
    /\ filteredSites = LoadedSites(religiousSitesData)
    /\ selectedSite = Null
    /\ isDetailCardOpen = FALSE
    /\ viewMode = "table"
    /\ showHowToUse = FALSE
    /\ searchQuery = currentFilters.query
    /\ searchHistory = <<>>
    /\ suggestions = <<>>
    /\ showSuggestions = FALSE
    /\ sortField = "name"
    /\ sortDirection = "asc"
    /\ handler = "none"

\* handleSearch and handleFiltersChange, followed by the filter effect
SetCurrentFilters(filters) ==
    /\ currentFilters' = filters
    /\ filteredSites' =
          IF Len(LoadedSites(religiousSitesData)) > 0
          THEN filterSites(religiousSitesData, filters)
          ELSE filteredSites

\* a row of the table or a marker of the map is clicked
HandleSiteClick(s) ==
    /\ handler' = "handleSiteClick"
    /\ s \in Range(filteredSites)
    /\ selectedSite' = s
    /\ isDetailCardOpen' = TRUE
    /\ UNCHANGED <<currentFilters, filteredSites, viewMode, showHowToUse>>
    /\ UNCHANGED <<heroVars, tableVars, guideVars>>
    /\ UNCHANGED <<religiousSitesData, call, result, site, validation>>

\* mutant of HandleCloseDetailCard: the card closes and the site stays selected
HandleCloseDetailCardKeepingSite ==
    /\ handler' = "handleCloseDetailCard"
    /\ isDetailCardOpen
    /\ isDetailCardOpen' = FALSE
    /\ UNCHANGED <<currentFilters, filteredSites, selectedSite, viewMode, showHowToUse>>
    /\ UNCHANGED <<heroVars, tableVars, guideVars>>
    /\ UNCHANGED <<religiousSitesData, call, result, site, validation>>

\* the close button, the Escape key or a click outside the open card
HandleCloseDetailCard ==
    /\ handler' = "handleCloseDetailCard"
    /\ isDetailCardOpen
    /\ isDetailCardOpen' = FALSE
    /\ selectedSite' = Null
    /\ UNCHANGED <<currentFilters, filteredSites, viewMode, showHowToUse>>
    /\ UNCHANGED <<heroVars, tableVars, guideVars>>
    /\ UNCHANGED <<religiousSitesData, call, result, site, validation>>

\* SiteTable is rendered in table mode only: leaving the mode unmounts it,
\* and it is mounted again with its initial sort state
HandleViewModeChange(mode) ==
    /\ handler' = "handleViewModeChange"
    /\ viewMode' = mode
    /\ sortField' = IF mode = viewMode THEN sortField ELSE "name"
    /\ sortDirection' = IF mode = viewMode THEN sortDirection ELSE "asc"
    /\ UNCHANGED <<currentFilters, filteredSites, selectedSite, isDetailCardOpen, showHowToUse>>
    /\ UNCHANGED <<heroVars, guideVars>>
    /\ UNCHANGED <<religiousSitesData, call, result, site, validation>>

(***************************************************************************)
(* FilterPanel (src/unnamed/part_001).                                     *)
(***************************************************************************)
hasActiveFilters(filters) ==
    filters.type # "all" \/ filters.location # <<>> \/ Len(filters.facilities) > 0

activeFilterCount(filters) ==
    (IF filters.type # "all" THEN 1 ELSE 0)
    + (IF filters.location # <<>> THEN 1 ELSE 0)
    + Len(filters.facilities)

\* the options of the panel, loaded when it is mounted
availableFacilities == getDatabaseStats(religiousSitesData).uniqueFacilities

availableLocations == getUniqueLocations(religiousSitesData)

\* the panel hands the new filters to the page; nothing else changes
OnFiltersChange(filters) ==
    /\ SetCurrentFilters(filters)
    /\ UNCHANGED <<selectedSite, isDetailCardOpen, viewMode, showHowToUse>>
    /\ UNCHANGED <<heroVars, tableVars, guideVars>>
    /\ UNCHANGED <<religiousSitesData, call, result, site, validation>>

HandleTypeChange(type) ==
    /\ handler' = "handleTypeChange"
    /\ OnFiltersChange([currentFilters EXCEPT !.type = type])

HandleLocationChange(location) ==
    /\ handler' = "handleLocationChange"
    /\ OnFiltersChange([currentFilters EXCEPT !.location = location])

\* mutant of handleFacilityToggle: the facility is appended in either case
handleFacilityToggleAppending(currentFacilities, facility) ==
    Append(currentFacilities, facility)

\* newFacilities of handleFacilityToggle
handleFacilityToggle(currentFacilities, facility) ==
    IF facility \in Range(currentFacilities)
    THEN LET Other(f) == f # facility IN SelectSeq(currentFacilities, Other)
    ELSE Append(currentFacilities, facility)

HandleFacilityToggle(facility) ==
    /\ handler' = "handleFacilityToggle"
    /\ OnFiltersChange([currentFilters EXCEPT
                          !.facilities = handleFacilityToggle(@, facility)])

\* mutant of HandleClearFilters: the query is cleared as well
HandleClearFiltersAndQuery ==
    /\ handler' = "handleClearFilters"
    /\ hasActiveFilters(currentFilters)
    /\ OnFiltersChange(NoFilters)

\* 'Clear all' is rendered only while a filter is active
HandleClearFilters ==
    /\ handler' = "handleClearFilters"
    /\ hasActiveFilters(currentFilters)
    /\ OnFiltersChange(SearchFilters(currentFilters.query, "all", <<>>, <<>>))

(***************************************************************************)
(* SiteTable (src/unnamed/part_000).                                       *)
(***************************************************************************)
\* the characters of the model in the order of the root collation: white
\* space, punctuation, digits, letters
CollationOrder ==
    <<" ","-",",","0","1","2","3","4","5","6","7","8","9","a","b","c","d","e","f","g","h","i","j","k","l","m","n","o","p","q","r","s","t","u","v","w","x","y","z">>

\* the weight of a character on a level of the collation: letters of either
\* case have one primary weight, and on the case level the small letter
\* comes first
Weight(c, level) ==
    IF level = "primary"
    THEN CHOOSE k \in 1..Len(CollationOrder) : CollationOrder[k] = ToLowerChar(c)
    ELSE IF c \in DOMAIN LowerOf THEN 1 ELSE 0

\* the order of two strings by the weights of one level: -1, 0 or 1
RECURSIVE CompareAt(_, _, _)
CompareAt(a, b, level) ==
    IF a = <<>> /\ b = <<>> THEN 0
    ELSE IF a = <<>> THEN -1
    ELSE IF b = <<>> THEN 1
    ELSE IF Weight(Head(a), level) < Weight(Head(b), level) THEN -1
    ELSE IF Weight(Head(a), level) > Weight(Head(b), level) THEN 1
    ELSE CompareAt(Tail(a), Tail(b), level)

\* a.localeCompare(b): the primary weights decide, then the case
localeCompare(a, b) ==
    IF CompareAt(a, b, "primary") # 0 THEN CompareAt(a, b, "primary")
    ELSE CompareAt(a, b, "case")

\* the characters of site.type
TypeName(type) ==
    IF type = "temple" THEN <<"t","e","m","p","l","e">>
    ELSE IF type = "gurdwara" THEN <<"g","u","r","d","w","a","r","a">>
    ELSE <<>>

\* aValue and bValue of the comparator
SortValue(s, field) ==
    IF field = "type" THEN TypeName(s.type)
    ELSE IF field = "location" THEN s.address
    ELSE s.name

\* mutant of Comparator: the direction is ignored
ComparatorAscending(a, b, field, direction) ==
    localeCompare(SortValue(a, field), SortValue(b, field))

Comparator(a, b, field, direction) ==
    IF direction = "asc"
    THEN localeCompare(SortValue(a, field), SortValue(b, field))
    ELSE -localeCompare(SortValue(a, field), SortValue(b, field))

\* Array.prototype.sort is stable: a row goes behind the rows that do not
\* sort after it
InsertSorted(sorted, x, field, direction) ==
    LET later == {k \in 1..Len(sorted) : Comparator(sorted[k], x, field, direction) > 0}
        at == IF later = {} THEN Len(sorted) + 1
              ELSE CHOOSE k \in later : \A j \in later : k <= j
    IN SubSeq(sorted, 1, at - 1) \o <<x>> \o SubSeq(sorted, at, Len(sorted))

\* [...sites].sort(comparator): a sorted copy of the array
RECURSIVE sortedSites(_, _, _)
sortedSites(sites, field, direction) ==
    IF sites = <<>> THEN <<>>
    ELSE InsertSorted(sortedSites(SubSeq(sites, 1, Len(sites) - 1), field, direction),
                      sites[Len(sites)], field, direction)

SortFields == {"name", "type", "location"}

\* a click on a column header, which is rendered when the table has rows
HandleSort(field) ==
    /\ handler' = "handleSort"
    /\ viewMode = "table"
    /\ Len(filteredSites) > 0
    /\ sortField' = field
    /\ sortDirection' =
          IF sortField = field /\ sortDirection = "asc" THEN "desc" ELSE "asc"
    /\ UNCHANGED pageVars
    /\ UNCHANGED <<heroVars, guideVars>>
    /\ UNCHANGED <<religiousSitesData, call, result, site, validation>>

(***************************************************************************)
(* DirectoryHero (src/src/components/directory/DirectoryHero.tsx).         *)
(***************************************************************************)
popularSearches ==
    << <<"T","e","m","p","l","e","s"," ","w","i","t","h"," ","p","a","r","k","i","n","g">>,
       <<"G","u","r","d","w","a","r","a","s"," ","w","i","t","h"," ","l","a","n","g","a","r">>,
       <<"2","4"," ","h","o","u","r","s"," ","o","p","e","n">>,
       <<"S","i","t","e","s"," ","i","n"," ","H","o","s","h","i","a","r","p","u","r"," ","c","i","t","y">>,
       <<"T","e","m","p","l","e","s"," ","n","e","a","r"," ","D","a","s","u","y","a">>,
       <<"G","u","r","d","w","a","r","a","s"," ","w","i","t","h"," ","a","c","c","o","m","m","o","d","a","t","i","o","n">> >>

quickFilters ==
    { SearchFilters(<<>>, "temple", <<"H","o","s","h","i","a","r","p","u","r">>, <<>>),
      SearchFilters(<<>>, "gurdwara", <<>>, << <<"P","a","r","k","i","n","g">> >>),
      SearchFilters(<<>>, "all", <<>>, << <<"A","c","c","o","m","m","o","d","a","t","i","o","n">> >>),
      SearchFilters(<<"2","4"," ","h","o","u","r","s">>, "all", <<>>, <<>>) }

\* arr.slice(0, n)
Slice(arr, n) == SubSeq(arr, 1, IF Len(arr) < n THEN Len(arr) ELSE n)

\* the items pushed one by one onto list, each unless the list includes it
RECURSIVE PushNew(_, _)
PushNew(list, items) ==
    IF items = <<>> THEN list
    ELSE PushNew(IF Head(items) \in Range(list) THEN list ELSE Append(list, Head(items)),
                 Tail(items))

generateSuggestions(query, history) ==
    IF Trim(query) = <<>>
    THEN Slice(PushNew(<<>>, Slice(history, 3) \o Slice(popularSearches, 5)), 6)
    ELSE LET queryLower == ToLowerCase(query)
             Matches(item) == Includes(ToLowerCase(item), queryLower)
             matchingHistory == Slice(SelectSeq(history, Matches), 2)
             NewMatch(item) == Matches(item) /\ item \notin Range(matchingHistory)
             matchingPopular == Slice(SelectSeq(popularSearches, NewMatch), 3)
             sites == IF SitesNotArray(religiousSitesData) THEN <<>>
                      ELSE Slice(searchSites(religiousSitesData, query), 3)
             siteNames == [i \in 1..Len(sites) |-> sites[i].name]
         IN Slice(PushNew(matchingHistory \o matchingPopular, siteNames), 6)

\* the hero hands the filters to the page
OnSearch(filters) ==
    /\ SetCurrentFilters(filters)
    /\ UNCHANGED <<selectedSite, isDetailCardOpen, viewMode, showHowToUse>>
    /\ UNCHANGED <<tableVars, guideVars>>
    /\ UNCHANGED <<religiousSitesData, call, result, site, validation>>

\* a keystroke in the search box
HandleSearchChange(query) ==
    /\ handler' = "handleSearchChange"
    /\ searchQuery' = query
    /\ suggestions' = generateSuggestions(query, searchHistory)
    /\ showSuggestions' = TRUE
    /\ OnSearch(SearchFilters(query, "all", <<>>, <<>>))
    /\ UNCHANGED searchHistory

\* mutant of newHistory: the entry is added again, not moved
newHistoryKeepingOld(entry, history) == Slice(<<entry>> \o history, 10)

\* [entry, ...searchHistory.filter(item => item !== entry)].slice(0, 10),
\* which is also what is written to localStorage
newHistory(entry, history) ==
    LET Other(item) == item # entry
    IN Slice(<<entry>> \o SelectSeq(history, Other), 10)

\* mutant of HandleSearchSubmit: the query is put into the current filters
HandleSearchSubmitKeepingFilters ==
    /\ handler' = "handleSearchSubmit"
    /\ searchHistory' = IF Trim(searchQuery) # <<>>
                        THEN newHistory(searchQuery, searchHistory)
                        ELSE searchHistory
    /\ showSuggestions' = FALSE
    /\ OnSearch([currentFilters EXCEPT !.query = searchQuery])
    /\ UNCHANGED <<searchQuery, suggestions>>

HandleSearchSubmit ==
    /\ handler' = "handleSearchSubmit"
    /\ searchHistory' = IF Trim(searchQuery) # <<>>
                        THEN newHistory(searchQuery, searchHistory)
                        ELSE searchHistory
    /\ showSuggestions' = FALSE
    /\ OnSearch(SearchFilters(searchQuery, "all", <<>>, <<>>))
    /\ UNCHANGED <<searchQuery, suggestions>>

\* a click on one of the suggestions shown
HandleSuggestionClick(suggestion) ==
    /\ handler' = "handleSuggestionClick"
    /\ showSuggestions
    /\ suggestion \in Range(suggestions)
    /\ searchQuery' = suggestion
    /\ showSuggestions' = FALSE
    /\ searchHistory' = newHistory(suggestion, searchHistory)
    /\ OnSearch(SearchFilters(suggestion, "all", <<>>, <<>>))
    /\ UNCHANGED suggestions

HandleQuickFilterClick(filters) ==
    /\ handler' = "handleQuickFilterClick"
    /\ searchQuery' = filters.query
    /\ showSuggestions' = FALSE
    /\ OnSearch(filters)
    /\ UNCHANGED <<searchHistory, suggestions>>

HandleInputFocus ==
    /\ handler' = "handleInputFocus"
    /\ suggestions' = generateSuggestions(searchQuery, searchHistory)
    /\ showSuggestions' = TRUE
    /\ UNCHANGED <<searchQuery, searchHistory>>
    /\ UNCHANGED <<pageVars, tableVars, guideVars>>
    /\ UNCHANGED <<religiousSitesData, call, result, site, validation>>

(***************************************************************************)
(* InteractiveGuide and useInteractiveGuide                                *)
(* (src/src/components/help/InteractiveGuide.tsx), and the help modal that *)
(* starts the guide.                                                       *)
(***************************************************************************)
guideSteps == <<"welcome", "search", "quick-filters", "filters", "view-toggle", "site-details", "help">>

\* after the mount effect of the hook: a user without the stored flag gets
\* the timer that opens the guide
GuideMounted(seenBefore) ==
    /\ guideSeen = seenBefore
    /\ hasSeenGuide = seenBefore
    /\ timer = ~seenBefore
    /\ isGuideOpen = FALSE
    /\ currentStep = 0

\* setIsGuideOpen(true) and the effect of the guide on isOpen: an opening
\* shows step 0
OpenGuide ==
    /\ isGuideOpen' = TRUE
    /\ currentStep' = IF isGuideOpen THEN currentStep ELSE 0

\* the timer of the first visit runs out
TimerFires ==
    /\ handler' = "setTimeout"
    /\ timer
    /\ timer' = FALSE
    /\ OpenGuide
    /\ UNCHANGED <<hasSeenGuide, guideSeen>>
    /\ UNCHANGED <<pageVars, heroVars, tableVars>>
    /\ UNCHANGED <<religiousSitesData, call, result, site, validation>>

HandleShowHowToUse ==
    /\ handler' = "handleShowHowToUse"
    /\ showHowToUse' = TRUE
    /\ UNCHANGED <<currentFilters, filteredSites, selectedSite, isDetailCardOpen, viewMode>>
    /\ UNCHANGED <<heroVars, tableVars, guideVars>>
    /\ UNCHANGED <<religiousSitesData, call, result, site, validation>>

HandleCloseHowToUse ==
    /\ handler' = "handleCloseHowToUse"
    /\ showHowToUse
    /\ showHowToUse' = FALSE
    /\ UNCHANGED <<currentFilters, filteredSites, selectedSite, isDetailCardOpen, viewMode>>
    /\ UNCHANGED <<heroVars, tableVars, guideVars>>
    /\ UNCHANGED <<religiousSitesData, call, result, site, validation>>

\* 'Start tour' of the help modal: onClose(), then onStartGuide()
HandleStartGuide ==
    /\ handler' = "handleStartGuide"
    /\ showHowToUse
    /\ showHowToUse' = FALSE
    /\ OpenGuide
    /\ UNCHANGED <<hasSeenGuide, guideSeen, timer>>
    /\ UNCHANGED <<currentFilters, filteredSites, selectedSite, isDetailCardOpen, viewMode>>
    /\ UNCHANGED <<heroVars, tableVars>>
    /\ UNCHANGED <<religiousSitesData, call, result, site, validation>>

\* mutant of HandleNext: the last step wraps around to the first
HandleNextWrapping ==
    /\ handler' = "handleNext"
    /\ isGuideOpen
    /\ currentStep' = IF currentStep < Len(guideSteps) - 1 THEN currentStep + 1 ELSE 0
    /\ UNCHANGED <<isGuideOpen, hasSeenGuide, guideSeen, timer>>
    /\ UNCHANGED <<pageVars, heroVars, tableVars>>
    /\ UNCHANGED <<religiousSitesData, call, result, site, validation>>

\* 'Next', or 'Finish' on the last step: onComplete(), then onClose()
HandleNext ==
    /\ handler' = "handleNext"
    /\ isGuideOpen
    /\ IF currentStep < Len(guideSteps) - 1
       THEN /\ currentStep' = currentStep + 1
            /\ UNCHANGED <<isGuideOpen, hasSeenGuide, guideSeen>>
       ELSE /\ hasSeenGuide' = TRUE
            /\ guideSeen' = TRUE
            /\ isGuideOpen' = FALSE
            /\ UNCHANGED currentStep
    /\ UNCHANGED timer
    /\ UNCHANGED <<pageVars, heroVars, tableVars>>
    /\ UNCHANGED <<religiousSitesData, call, result, site, validation>>

\* 'Previous' is rendered from the second step on
HandlePrevious ==
    /\ handler' = "handlePrevious"
    /\ isGuideOpen
    /\ currentStep > 0
    /\ currentStep' = currentStep - 1
    /\ UNCHANGED <<isGuideOpen, hasSeenGuide, guideSeen, timer>>
    /\ UNCHANGED <<pageVars, heroVars, tableVars>>
    /\ UNCHANGED <<religiousSitesData, call, result, site, validation>>

\* 'Skip tour' and the close button of the guide
HandleSkip ==
    /\ handler' = "handleSkip"
    /\ isGuideOpen
    /\ isGuideOpen' = FALSE
    /\ UNCHANGED <<hasSeenGuide, currentStep, guideSeen, timer>>
    /\ UNCHANGED <<pageVars, heroVars, tableVars>>
    /\ UNCHANGED <<religiousSitesData, call, result, site, validation>>

(***************************************************************************)
(* The filters in use: the filter panel, the search box and the quick      *)
(* filters over the records of DirectorySites.                             *)
(***************************************************************************)
InitDirectory ==
    /\ religiousSitesData = Dataset(DirectorySites)
    /\ call = Idle
    /\ result = <<>>
    /\ site = EmptyObject
    /\ validation = NoValidation
    /\ PageLoaded
    /\ GuideMounted(TRUE)

NextDirectory ==
    \/ \E type \in TypeChoices : HandleTypeChange(type)
    \/ \E location \in {<<>>} \cup Range(availableLocations) : HandleLocationChange(location)
    \/ \E facility \in Range(availableFacilities) : HandleFacilityToggle(facility)
    \/ HandleClearFilters
    \/ \E query \in {<<>>, <<"x">>} : HandleSearchChange(query)
    \/ \E filters \in quickFilters : HandleQuickFilterClick(filters)

SpecDirectory == InitDirectory /\ [][NextDirectory]_vars

(***************************************************************************)
(* The results in use: the table, whose rows change with the filters of    *)
(* the page, the map and the detail card.                                  *)
(***************************************************************************)
NextTable ==
    \/ \E field \in SortFields : HandleSort(field)
    \/ \E type \in TypeChoices : HandleTypeChange(type)
    \/ \E facility \in Range(availableFacilities) : HandleFacilityToggle(facility)
    \/ \E query \in {<<>>, <<"x">>} : HandleSearchChange(query)
    \/ \E mode \in {"table", "map"} : HandleViewModeChange(mode)
    \/ \E s \in Range(filteredSites) : HandleSiteClick(s)
    \/ HandleCloseDetailCard

SpecTable == InitDirectory /\ [][NextTable]_vars

(***************************************************************************)
(* The search box in use, from an empty stored history. The user types a   *)
(* query of TypedQueries; what is submitted or clicked is blank, the most  *)
(* recent entry of the history, a string of Repeated, or the first string  *)
(* of Vocabulary that the history does not hold (strings outside the       *)
(* history are alike to the code, so new entries come in one order).       *)
(***************************************************************************)
TypedQueries ==
    { <<>>, <<" ">>, <<"x">>, <<" ","x">>, <<"s">>, <<"a","c","c">> }

Vocabulary ==
    << <<"x">>,
       <<"X">>,
       <<" ","x">>,
       <<"s">>,
       <<"T","e","m","p","l","e","s"," ","w","i","t","h"," ","p","a","r","k","i","n","g">>,
       <<"G","u","r","d","w","a","r","a","s"," ","w","i","t","h"," ","l","a","n","g","a","r">>,
       <<"2","4"," ","h","o","u","r","s"," ","o","p","e","n">>,
       <<"S","i","t","e","s"," ","i","n"," ","H","o","s","h","i","a","r","p","u","r"," ","c","i","t","y">>,
       <<"T","e","m","p","l","e","s"," ","n","e","a","r"," ","D","a","s","u","y","a">>,
       <<"a","c","c">>,
       <<"G","u","r","d","w","a","r","a","s"," ","w","i","t","h"," ","a","c","c","o","m","m","o","d","a","t","i","o","n">> >>

\* the entries that are submitted or clicked again at any time
Repeated == { <<"x">> }

Recalled(entry) ==
    \/ Trim(entry) = <<>>
    \/ searchHistory # <<>> /\ entry = Head(searchHistory)
    \/ entry \in Repeated
    \/ LET New(item) == item \notin Range(searchHistory)
           new == SelectSeq(Vocabulary, New)
       IN new # <<>> /\ entry = Head(new)

NextHero ==
    \/ \E query \in TypedQueries : HandleSearchChange(query)
    \/ Recalled(searchQuery) /\ HandleSearchSubmit
    \/ \E suggestion \in Range(suggestions) :
          Recalled(suggestion) /\ HandleSuggestionClick(suggestion)
    \/ \E filters \in quickFilters : HandleQuickFilterClick(filters)
    \/ HandleInputFocus

SpecHero == InitDirectory /\ [][NextHero]_vars

(***************************************************************************)
(* The guide in use, by a first-time and by a returning user.              *)
(***************************************************************************)
InitGuide ==
    /\ religiousSitesData = Dataset(DirectorySites)
    /\ call = Idle
    /\ result = <<>>
    /\ site = EmptyObject
    /\ validation = NoValidation
    /\ PageLoaded
    /\ \E seenBefore \in BOOLEAN : GuideMounted(seenBefore)

NextGuide ==
    \/ TimerFires
    \/ HandleShowHowToUse
    \/ HandleCloseHowToUse
    \/ HandleStartGuide
    \/ HandleNext
    \/ HandlePrevious
    \/ HandleSkip
    \/ \E mode \in {"table", "map"} : HandleViewModeChange(mode)

SpecGuide == InitGuide /\ [][NextGuide]_vars

(***************************************************************************)
(* Properties of the filter and the search.                                *)
(***************************************************************************)
IsBlank(str) == \A i \in 1..Len(str) : str[i] \in WhiteSpace

ContainsIgnoringCase(field, term) == Includes(ToLowerCase(field), ToLowerCase(term))

SearchableFields(s) == {s.name, s.description, s.address, s.city, s.history}

\* the four predicates of the filter as the specification words them
TextPredicate(s, f) ==
    IsBlank(f.query) \/ \E field \in SearchableFields(s) : ContainsIgnoringCase(field, f.query)

TypePredicate(s, f) == f.type = "all" \/ s.type = f.type

LocationPredicate(s, f) ==
    IsBlank(f.location) \/ \E field \in {s.city, s.address} : ContainsIgnoringCase(field, f.location)

FacilitiesPredicate(s, f) ==
    \A requested \in Range(f.facilities) :
        \E facility \in Range(s.facilities) : ContainsIgnoringCase(facility, requested)

Loaded == religiousSitesData.sites

\* b holds the elements of a at increasing positions
IsSubsequence(a, b) ==
    \E m \in [1..Len(a) -> 1..Len(b)] :
        /\ \A i \in 1..Len(a) : a[i] = b[m[i]]
        /\ \A i, j \in 1..Len(a) : i < j => m[i] < m[j]

\* C1: filterSites returns exactly the records lying in all four results of
\* the text, type, location and facilities filter applied alone to the whole
\* collection, and the four steps taken in the opposite order give the same.
C1_FilterIsIntersection ==
    call.op = "filterSites" =>
        LET f == call.filters
            textOnly == Range(filterSites(religiousSitesData, [NoFilters EXCEPT !.query = f.query]))
            typeOnly == Range(filterSites(religiousSitesData, [NoFilters EXCEPT !.type = f.type]))
            locationOnly == Range(filterSites(religiousSitesData, [NoFilters EXCEPT !.location = f.location]))
            facilitiesOnly == Range(filterSites(religiousSitesData, [NoFilters EXCEPT !.facilities = f.facilities]))
            InAll(s) == s \in (textOnly \cap typeOnly \cap locationOnly \cap facilitiesOnly)
        IN /\ result = SelectSeq(Loaded, InAll)
           /\ result = ApplyTextFilter(ApplyTypeFilter(ApplyLocationFilter(
                           ApplyFacilitiesFilter(Loaded, f), f), f), f)

C1_Witness ==
    /\ call.op = "filterSites"
    /\ ~IsBlank(call.filters.query) /\ call.filters.type # "all"
    /\ ~IsBlank(call.filters.location) /\ call.filters.facilities # <<>>
    /\ result # <<>> /\ Len(result) < Len(Loaded)

\* C2: a blank field (query or location empty or white space, type all, no
\* facilities) removes no record whatever the other fields hold: the result
\* is what the other three predicates leave; all four blank return the
\* whole collection.
C2_BlankFieldsAreNoOps ==
    call.op = "filterSites" =>
        LET f == call.filters
            ButText(s) == TypePredicate(s, f) /\ LocationPredicate(s, f) /\ FacilitiesPredicate(s, f)
            ButType(s) == TextPredicate(s, f) /\ LocationPredicate(s, f) /\ FacilitiesPredicate(s, f)
            ButLocation(s) == TextPredicate(s, f) /\ TypePredicate(s, f) /\ FacilitiesPredicate(s, f)
            ButFacilities(s) == TextPredicate(s, f) /\ TypePredicate(s, f) /\ LocationPredicate(s, f)
        IN /\ IsBlank(f.query) => result = SelectSeq(Loaded, ButText)
           /\ f.type = "all" => result = SelectSeq(Loaded, ButType)
           /\ IsBlank(f.location) => result = SelectSeq(Loaded, ButLocation)
           /\ f.facilities = <<>> => result = SelectSeq(Loaded, ButFacilities)
           /\ (IsBlank(f.query) /\ f.type = "all" /\ IsBlank(f.location) /\ f.facilities = <<>>)
                 => result = Loaded

\* a white-space query beside an active type and location filter keeps a
\* record that holds no white space at all
C2_Witness ==
    /\ call.op = "filterSites"
    /\ call.filters.query # <<>> /\ IsBlank(call.filters.query)
    /\ call.filters.type # "all" /\ ~IsBlank(call.filters.location)
    /\ \E r \in Range(result) : \A field \in SearchableFields(r) : ~Includes(field, <<" ">>)

\* C3: for a non-blank query every record returned by filterSites or by
\* searchSites holds the lowercased query in its lowercased name,
\* description, address, city or history.
C3_TextFilterSoundness ==
    (call.op \in {"filterSites", "searchSites"} /\ ~IsBlank(call.filters.query)) =>
        \A r \in Range(result) :
            \E field \in SearchableFields(r) :
                Includes(ToLowerCase(field), ToLowerCase(call.filters.query))

C3_Witness ==
    /\ call.op = "filterSites"
    /\ call.filters.query = <<"A","B">>
    /\ call.filters.type # "all"
    /\ result # <<>> /\ Len(result) < Len(Loaded)

\* C4: searchSites with an empty or white-space term returns every record,
\* as many as filterSites returns for that query and no other filter.
C4_BlankSearchMatchesAll ==
    (call.op = "searchSites" /\ IsBlank(call.filters.query)) =>
        /\ result = Loaded
        /\ Len(result) = Len(filterSites(religiousSitesData,
                                         [NoFilters EXCEPT !.query = call.filters.query]))

\* C5: with type temple or gurdwara every returned record has that type, and
\* with the other fields blank the result is exactly the records of the type.
C5_TypeFilter ==
    (call.op = "filterSites" /\ call.filters.type \in SiteTypes) =>
        LET f == call.filters
            OfType(s) == s.type = f.type
        IN /\ \A r \in Range(result) : r.type = f.type
           /\ (IsBlank(f.query) /\ IsBlank(f.location) /\ f.facilities = <<>>)
                 => result = SelectSeq(Loaded, OfType)

\* one temple and one gurdwara filtered by type temple: exactly the temple
C5_Witness ==
    /\ call.op = "filterSites"
    /\ call.filters = [NoFilters EXCEPT !.type = "temple"]
    /\ Len(Loaded) = 2
    /\ {Loaded[1].type, Loaded[2].type} = SiteTypes
    /\ Len(result) = 1 /\ result[1].type = "temple"

\* C6: with a non-empty facilities list the facilities step keeps a record
\* if and only if every requested facility is contained, ignoring case, in
\* at least one facility of the record.
C6_FacilitiesFilter ==
    (call.op = "filterSites" /\ call.filters.facilities # <<>>) =>
        LET f == call.filters
            before == filterSites(religiousSitesData, [f EXCEPT !.facilities = <<>>])
            Kept(s) == \A i \in 1..Len(f.facilities) :
                           \E j \in 1..Len(s.facilities) :
                               ContainsIgnoringCase(s.facilities[j], f.facilities[i])
        IN result = SelectSeq(before, Kept)

\* two requested facilities, a record kept through substring matches only
C6_Witness ==
    /\ call.op = "filterSites"
    /\ Len(call.filters.facilities) = 2
    /\ Len(result) < Len(Loaded)
    /\ \E r \in Range(result) : Range(r.facilities) \cap Range(call.filters.facilities) = {}

\* C7: the result of filterSites is a same-order subsequence of the loaded
\* collection.
C7_SameOrderSubsequence ==
    call.op = "filterSites" => IsSubsequence(result, Loaded)

C7_Witness ==
    /\ call.op = "filterSites"
    /\ call.filters # NoFilters
    /\ Len(result) = 2 /\ result[1] # result[2]

\* C8: no query changes the loaded collection or any of its records.
C8_QueriesLeaveCollectionUnchanged ==
    [][religiousSitesData' = religiousSitesData]_vars

C8_Witness ==
    /\ call.op = "filterSites"
    /\ result # <<>> /\ Len(result) < Len(Loaded)

(***************************************************************************)
(* Properties of the validator.                                            *)
(***************************************************************************)
\* a required string that is missing, empty or white space
Absent(s, path, value) == path \notin s.has \/ IsBlank(value)

\* the presence rules, each with the message it reports and whether the
\* record violates it
PresenceRules(s) ==
    { <<"Site ID is required", Absent(s, "id", s.id)>>,
      <<"Site name is required", Absent(s, "name", s.name)>>,
      <<"Site type must be either \"temple\" or \"gurdwara\"",
        "type" \notin s.has \/ s.type \notin SiteTypes>>,
      <<"Site description is required", Absent(s, "description", s.description)>>,
      <<"Site history is required", Absent(s, "history", s.history)>>,
      <<"Location information is required", "location" \notin s.has>>,
      <<"Location address is required",
        "location" \in s.has /\ Absent(s, "location.address", s.address)>>,
      <<"Location city is required",
        "location" \in s.has /\ Absent(s, "location.city", s.city)>>,
      <<"Location coordinates are required",
        "location" \in s.has /\ "location.coordinates" \notin s.has>>,
      <<"Location latitude must be a number",
        "location.coordinates" \in s.has /\ "location.coordinates.lat" \notin s.has>>,
      <<"Location longitude must be a number",
        "location.coordinates" \in s.has /\ "location.coordinates.lng" \notin s.has>>,
      <<"Timings information is required", "timings" \notin s.has>>,
      <<"Weekday timings are required",
        "timings" \in s.has /\ Absent(s, "timings.weekdays", s.weekdays)>>,
      <<"Weekend timings are required",
        "timings" \in s.has /\ Absent(s, "timings.weekends", s.weekends)>>,
      <<"Facilities must be provided as an array", "facilities" \notin s.has>>,
      <<"At least one facility must be specified",
        "facilities" \in s.has /\ s.facilities = <<>>>> }

ViolatedPresenceMessages(s) == {rule[1] : rule \in {r \in PresenceRules(s) : r[2]}}

\* one message for each of id, name, type, description, history, location,
\* timings, facilities
CategoryMessages ==
    { "Site ID is required", "Site name is required",
      "Site type must be either \"temple\" or \"gurdwara\"",
      "Site description is required", "Site history is required",
      "Location information is required", "Timings information is required",
      "Facilities must be provided as an array" }

\* C9: the presence validator reports one error for every violated presence
\* rule, and the empty record is invalid with at least 8 distinct errors, one
\* for each of id, name, type, description, history, location, timings and
\* facilities.
C9_PresenceErrorsAreComplete ==
    /\ validation.fn = "validateReligiousSite" =>
          /\ Range(validation.errors) = ViolatedPresenceMessages(site)
          /\ Len(validation.errors) = Cardinality(ViolatedPresenceMessages(site))
          /\ validation.isValid <=> ViolatedPresenceMessages(site) = {}
    /\ (validation.fn # "none" /\ site = EmptyObject) =>
          /\ ~validation.isValid
          /\ Cardinality(Range(validation.errors)) >= 8
          /\ CategoryMessages \subseteq Range(validation.errors)

C9_Witness ==
    /\ validation.fn = "validateReligiousSite"
    /\ site = EmptyObject
    /\ Len(validation.errors) = 8

\* what the acceptance claim asks of a record, but for the id and the facilities
WellFormedButIdAndFacilities(s) ==
    /\ RequiredPaths \subseteq s.has
    /\ ~IsBlank(s.name) /\ ~IsBlank(s.description) /\ ~IsBlank(s.history)
    /\ s.type \in SiteTypes
    /\ ~IsBlank(s.address) /\ ~IsBlank(s.city)
    /\ s.lat >= 290 /\ s.lat <= 330 /\ s.lng >= 730 /\ s.lng <= 780
    /\ rangePattern(s.weekdays) /\ rangePattern(s.weekends)
    /\ s.facilities # <<>>
    /\ "contact" \notin s.has

Accepted == validation.isValid /\ validation.errors = <<>>

\* C10 as claimed: a record with non-blank name, description, history,
\* address and city, an id of the temple-/gurdwara- kebab-case form, a known
\* type, coordinates in the region, time ranges for weekdays and weekends, a
\* non-empty list of non-empty facilities and no contact block is accepted by
\* validateReligiousSite and by validateCompleteSite.
C10_AcceptsWellFormedRecord ==
    (/\ validation.fn # "none"
     /\ WellFormedButIdAndFacilities(site)
     /\ idPattern(site.id)
     /\ \A i \in 1..Len(site.facilities) : site.facilities[i] # <<>>)
        => Accepted

\* C10 as amended: the same with an id of at most 100 characters and
\* facilities that are not blank.
C10_AcceptsWellFormedRecordAmended ==
    (/\ validation.fn # "none"
     /\ WellFormedButIdAndFacilities(site)
     /\ idPattern(site.id) /\ Len(site.id) <= 100
     /\ \A i \in 1..Len(site.facilities) : ~IsBlank(site.facilities[i]))
        => Accepted

\* the record of the acceptance example, validated in full
C10_Witness ==
    /\ validation.fn = "validateCompleteSite"
    /\ site = ValidSite
    /\ Accepted

(***************************************************************************)
(* Properties of the detailed checks and of the warnings.                  *)
(***************************************************************************)
LatitudeRegionError == "Latitude appears to be outside Punjab region (29N - 33N)"

LongitudeRegionError == "Longitude appears to be outside Punjab region (73E - 78E)"

\* C11: validateCompleteSite of a record that passes the presence check and
\* whose latitude is outside [29,33], or whose longitude is outside [73,78],
\* returns isValid = false with the error of that region bound among its
\* errors.
C11_OutOfRegionIsRejected ==
    (validation.fn = "validateCompleteSite" /\ validateReligiousSite(site).isValid) =>
        /\ (site.lat < 290 \/ site.lat > 330) =>
              ~validation.isValid /\ LatitudeRegionError \in Range(validation.errors)
        /\ (site.lng < 730 \/ site.lng > 780) =>
              ~validation.isValid /\ LongitudeRegionError \in Range(validation.errors)

\* the acceptance example with lat = 45.0 has been validated and rejected
C11_Witness ==
    /\ validation.fn = "validateCompleteSite"
    /\ site = [ValidSite EXCEPT !.lat = 450]
    /\ ~validation.isValid
    /\ validation.errors = <<LatitudeRegionError>>

NoContactInfo(s) ==
    \/ "contact" \notin s.has
    \/ /\ ("contact.phone" \notin s.has \/ s.phone = <<>>)
       /\ ("contact.email" \notin s.has \/ s.email = <<>>)

\* the warning of each recommendation the record does not follow
DueWarnings(s) ==
    {w[1] : w \in {x \in
        { <<"Contact information (phone or email) is recommended", NoContactInfo(s)>>,
          <<"Images are recommended for better user experience",
            "images" \notin s.has \/ s.images = <<>> >>,
          <<"Description should be at least 50 characters for better information",
            Len(s.description) < 50>>,
          <<"History should be at least 100 characters for comprehensive information",
            Len(s.history) < 100>> } : x[2]}}

\* C15: validateCompleteSite returns isValid = true exactly when its errors
\* are empty, whatever its warnings; a record without errors carries exactly
\* one warning for each recommendation it does not follow (contact info,
\* images, description of 50 characters, history of 100 characters); when
\* the presence check fails the errors are those of the presence check and
\* there are no warnings.
C15_WarningsNeverAffectValidity ==
    validation.fn = "validateCompleteSite" =>
        /\ validation.isValid <=> validation.errors = <<>>
        /\ validation.errors = <<>> =>
              /\ Range(validation.warnings) = DueWarnings(site)
              /\ Len(validation.warnings) = Cardinality(DueWarnings(site))
        /\ ~validateReligiousSite(site).isValid =>
              /\ validation.errors = validateReligiousSite(site).errors
              /\ validation.warnings = <<>>

\* a record with a long description and neither contact nor images is valid
\* with three warnings
C15_Witness ==
    /\ validation.fn = "validateCompleteSite"
    /\ Len(site.description) >= 50
    /\ validation.isValid
    /\ Len(validation.warnings) = 3

\* the value is neither a time, nor a range of times, nor a text with "hours"
NoTimeFormat(timings) ==
    /\ ~rangePattern(timings)
    /\ ~timePattern(timings)
    /\ ~Includes(timings, <<"h","o","u","r","s">>)

\* C16: a record in which timings.weekdays, timings.weekends or a present
\* timings.specialDays matches neither the time-range pattern nor the bare
\* time pattern nor contains "hours" is reported invalid with an error by
\* validateCompleteSite.
C16_EveryTimingIsChecked ==
    (/\ validation.fn = "validateCompleteSite"
     /\ \/ "timings.weekdays" \in site.has /\ NoTimeFormat(site.weekdays)
        \/ "timings.weekends" \in site.has /\ NoTimeFormat(site.weekends)
        \/ "timings.specialDays" \in site.has /\ NoTimeFormat(site.specialDays))
    => (~validation.isValid /\ validation.errors # <<>>)

(***************************************************************************)
(* Properties of the collection validators, the loader and the accessors.  *)
(***************************************************************************)
\* C12: no call of validateReligiousSite, validateCompleteSite,
\* validateSiteCollection or validateDatabase raises: each returns a report.
C12_ValidationNeverRaises ==
    validation.fn \in {"validateReligiousSite", "validateCompleteSite",
                       "validateSiteCollection", "validateDatabase"} => ~validation.threw

\* C13: validateDatabase of data without an array of sites returns, with
\* isValid = false, totalSites = 0, validSites = 0, every summary count 0 and
\* one invalid entry of index -1 that carries one error.
C13_MalformedStructureIsReported ==
    (validation.fn = "validateDatabase" /\ religiousSitesData.shape # "array") =>
        /\ ~validation.threw
        /\ ~validation.report.isValid
        /\ validation.report.totalSites = 0
        /\ validation.report.validSites = 0
        /\ validation.report.summary =
              [temples |-> 0, gurdwaras |-> 0, sitesWithContact |-> 0, sitesWithImages |-> 0]
        /\ Len(validation.report.invalidSites) = 1
        /\ validation.report.invalidSites[1].index = -1
        /\ Len(validation.report.invalidSites[1].errors) = 1

C13_Witness ==
    /\ validation.fn = "validateDatabase"
    /\ religiousSitesData.shape = "noSites"
    /\ ~validation.threw
    /\ Len(validation.report.invalidSites) = 1

\* the 0-based indices of the records that fail validateReligiousSite
FailingIndices(sites) ==
    {i - 1 : i \in {k \in 1..Len(sites) : ~validateReligiousSite(sites[k]).isValid}}

\* C14: when validateSiteCollection returns, its invalidSites hold, in
\* ascending order of index, exactly the indices of the records that fail
\* validateReligiousSite, each with the errors of that record, and isValid
\* is true iff there is none.
C14_CollectionReportsEveryFailure ==
    (validation.fn = "validateSiteCollection" /\ ~validation.threw) =>
        LET sites == religiousSitesData.sites
            invalidSites == validation.report.invalidSites
        IN /\ {invalidSites[k].index : k \in 1..Len(invalidSites)} = FailingIndices(sites)
           /\ \A k \in 1..Len(invalidSites) : \A l \in 1..Len(invalidSites) :
                  k < l => invalidSites[k].index < invalidSites[l].index
           /\ \A k \in 1..Len(invalidSites) :
                  invalidSites[k].errors =
                      validateReligiousSite(sites[invalidSites[k].index + 1]).errors
           /\ validation.report.isValid <=> FailingIndices(sites) = {}

\* two records fail and both are reported
C14_Witness ==
    /\ validation.fn = "validateSiteCollection"
    /\ ~validation.threw
    /\ Len(validation.report.invalidSites) = 2
    /\ validation.report.invalidSites[2].index = 1

\* the data cannot be loaded, has no array of sites, or holds only records
\* that validateCompleteSite rejects
Unloadable(db) == validateDatabaseThrows(db) \/ db.shape = "null"

FullyInvalid(db) ==
    /\ ~Unloadable(db)
    /\ db.shape = "array"
    /\ db.sites # <<>>
    /\ \A i \in 1..Len(db.sites) : ~validateCompleteSite(db.sites[i]).isValid

\* the report that goes with the loaded collection names a problem
HasDiagnostic(db) == loadReligiousSitesDatabase(db).validationReport.invalidSites # <<>>

\* C17: a query against data that cannot be loaded, that has no array of
\* sites, or whose records are all invalid does not raise and yields an
\* empty result (no record, no location, statistics of no record) together
\* with a diagnostic report that is not empty.
C17_DegenerateDataYieldsEmptyResult ==
    (/\ call.op \in {"getSiteById", "getUniqueLocations", "getDatabaseStats"}
     /\ \/ Unloadable(religiousSitesData)
        \/ religiousSitesData.shape \in {"noSites", "notArray"}
        \/ FullyInvalid(religiousSitesData))
    => /\ ~call.threw
       /\ HasDiagnostic(religiousSitesData)
       /\ call.op = "getSiteById" => result = Null
       /\ call.op = "getUniqueLocations" => result = <<>>
       /\ call.op = "getDatabaseStats" =>
             result.totalSites = 0 /\ result.uniqueFacilities = <<>>

\* C18: loadReligiousSitesDatabase always returns. When validating the data
\* or reading its sites raises, it returns sites = [], isValid = false and a
\* report with isValid = false, totalSites = 0 and one invalid entry of
\* index -1, and logs. Otherwise it returns the sites of the data with the
\* report of validateDatabase and its isValid, and logs when the report is
\* invalid.
C18_LoaderNeverThrows ==
    validation.fn = "loadReligiousSitesDatabase" =>
        LET db == religiousSitesData
            load == validation.report
        IN /\ ~validation.threw
           /\ Unloadable(db) =>
                 /\ load.sites = <<>> /\ load.sitesKind = "array"
                 /\ ~load.isValid
                 /\ ~load.validationReport.isValid
                 /\ load.validationReport.totalSites = 0
                 /\ Len(load.validationReport.invalidSites) = 1
                 /\ load.validationReport.invalidSites[1].index = -1
                 /\ load.logged # <<>>
           /\ ~Unloadable(db) =>
                 /\ load.sites = db.sites
                 /\ load.sitesKind = "array" <=> db.shape = "array"
                 /\ load.validationReport = validateDatabase(db)
                 /\ load.isValid = load.validationReport.isValid
                 /\ ~load.isValid => load.logged # <<>>

\* an array with a null entry has been loaded as the empty collection
C18_Witness ==
    /\ validation.fn = "loadReligiousSitesDatabase"
    /\ religiousSitesData.shape = "array"
    /\ Null \in Range(religiousSitesData.sites)
    /\ validation.report.sites = <<>>
    /\ ~validation.report.isValid

\* the text before the first comma of the address, trimmed (the whole
\* address when it has no comma)
FirstSegment(address) ==
    LET n == CHOOSE k \in 0..Len(address) :
                /\ \A i \in 1..k : address[i] # ","
                /\ k < Len(address) => address[k + 1] = ","
    IN Trim(SubSeq(address, 1, n))

HasComma(address) == \E i \in 1..Len(address) : address[i] = ","

Sorted(list) ==
    \A k \in 1..Len(list) : \A l \in 1..Len(list) : k < l => SortsBefore(list[k], list[l])

\* C19 as stated: getUniqueLocations returns a sorted list without
\* duplicates whose elements are exactly the city of every record and the
\* trimmed first comma-delimited segment of the address of every record in
\* which that segment differs from the city.
C19_UniqueLocations ==
    (call.op = "getUniqueLocations" /\ ~call.threw) =>
        LET sites == LoadedSites(religiousSitesData)
        IN /\ Sorted(result)
           /\ Range(result) =
                 {CityOf(sites[i]) : i \in 1..Len(sites)}
                 \cup {FirstSegment(sites[i].address) :
                         i \in {k \in 1..Len(sites) :
                                  FirstSegment(sites[k].address) # CityOf(sites[k])}}

\* C19 amended: the first segment counts only when the address holds a
\* comma and the trimmed segment is not empty and differs from the city.
C19_UniqueLocationsAmended ==
    (call.op = "getUniqueLocations" /\ ~call.threw) =>
        LET sites == LoadedSites(religiousSitesData)
        IN /\ Sorted(result)
           /\ Range(result) =
                 {CityOf(sites[i]) : i \in 1..Len(sites)}
                 \cup {FirstSegment(sites[i].address) :
                         i \in {k \in 1..Len(sites) :
                                  /\ HasComma(sites[k].address)
                                  /\ FirstSegment(sites[k].address) # <<>>
                                  /\ FirstSegment(sites[k].address) # CityOf(sites[k])}}

\* an address without a comma and one whose first segment is an area: the
\* city and the area are returned, in order
C19_Witness ==
    /\ call.op = "getUniqueLocations"
    /\ ~call.threw
    /\ religiousSitesData.sites = <<ValidSite, SecondSite>>
    /\ result = << <<"D","a","s","u","y","a">>, <<"T","a","n","d","a">> >>

\* C20: in every collection that validateDatabase reports as valid no two
\* records have the same id.
C20_ValidCollectionHasUniqueIds ==
    (/\ validation.fn = "validateDatabase"
     /\ ~validation.threw
     /\ religiousSitesData.shape = "array"
     /\ validation.report.isValid)
    => \A i \in 1..Len(religiousSitesData.sites) :
          \A j \in 1..Len(religiousSitesData.sites) :
              i # j => religiousSitesData.sites[i].id # religiousSitesData.sites[j].id

(***************************************************************************)
(* Properties of the summary of the database report and of the statistics. *)
(***************************************************************************)
\* has a phone or an email
HasPhoneOrEmail(s) == ~NoContactInfo(s)

HasAnImage(s) == "images" \in s.has /\ s.images # <<>>

\* the counters of the claim over the records at the indices `among`
CountsOver(sites, among) ==
    Summary(Cardinality({i \in among : sites[i].type = "temple"}),
            Cardinality({i \in among : sites[i].type = "gurdwara"}),
            Cardinality({i \in among : HasPhoneOrEmail(sites[i])}),
            Cardinality({i \in among : HasAnImage(sites[i])}))

AcceptedIndices(sites) ==
    {i \in 1..Len(sites) : validateCompleteSite(sites[i]).isValid}

StatsSummary(stats) ==
    Summary(stats.temples, stats.gurdwaras, stats.sitesWithContact, stats.sitesWithImages)

\* C21 as stated: in the report of validateDatabase over an array of
\* records, and in getDatabaseStats, totalSites is the number of records and
\* the summary counts are the numbers of records of the collection that are
\* temples, are gurdwaras, have a phone or an email, have at least one image.
C21_SummaryCountsEveryRecord ==
    /\ (/\ validation.fn = "validateDatabase"
        /\ ~validation.threw
        /\ religiousSitesData.shape = "array")
       => /\ validation.report.totalSites = Len(religiousSitesData.sites)
          /\ validation.report.summary =
                CountsOver(religiousSitesData.sites, 1..Len(religiousSitesData.sites))
    /\ (call.op = "getDatabaseStats" /\ ~call.threw)
       => /\ result.totalSites = Len(LoadedSites(religiousSitesData))
          /\ StatsSummary(result) =
                CountsOver(LoadedSites(religiousSitesData),
                           1..Len(LoadedSites(religiousSitesData)))

\* C21 amended: totalSites is the number of records, and the summary counts
\* are the numbers of records accepted by validateCompleteSite that are
\* temples, are gurdwaras, have a phone or an email, have at least one image.
C21_SummaryCountsAcceptedRecords ==
    /\ (/\ validation.fn = "validateDatabase"
        /\ ~validation.threw
        /\ religiousSitesData.shape = "array")
       => /\ validation.report.totalSites = Len(religiousSitesData.sites)
          /\ validation.report.summary =
                CountsOver(religiousSitesData.sites,
                           AcceptedIndices(religiousSitesData.sites))
    /\ (call.op = "getDatabaseStats" /\ ~call.threw)
       => /\ result.totalSites = Len(LoadedSites(religiousSitesData))
          /\ StatsSummary(result) =
                CountsOver(LoadedSites(religiousSitesData),
                           AcceptedIndices(LoadedSites(religiousSitesData)))

\* a rejected temple next to an accepted gurdwara with a phone and an
\* image: two records, and only the gurdwara is counted
C21_Witness ==
    /\ validation.fn = "validateDatabase"
    /\ ~validation.threw
    /\ religiousSitesData = Dataset(<<OutOfRegionSite, SecondSite>>)
    /\ validation.report.totalSites = 2
    /\ validation.report.summary = Summary(0, 1, 1, 1)

\* C22 as stated: coordinates within the latitude/longitude bounds but
\* outside the regional box produce only a warning, so a record that is
\* valid but for such coordinates is reported with isValid = true.
C22_OutOfRegionIsOnlyAWarning ==
    (/\ validation.fn = "validateCompleteSite"
     /\ ~validation.threw
     /\ site.kind = "object"
     /\ {"location.coordinates.lat", "location.coordinates.lng"} \subseteq site.has
     /\ site.lat \in -900..900 /\ site.lng \in -1800..1800
     /\ site.lat \notin 290..330 \/ site.lng \notin 730..780
     /\ validateCompleteSite([site EXCEPT !.lat = 315, !.lng = 759]).isValid)
    => validation.isValid

\* C30: the report of validateDatabase over an array has validSites plus
\* the number of invalid entries equal to totalSites, temples + gurdwaras
\* equal to validSites, sitesWithContact and sitesWithImages at most
\* validSites, and isValid exactly when validSites = totalSites.
C30_ReportCountersAgree ==
    (/\ validation.fn = "validateDatabase"
     /\ ~validation.threw
     /\ religiousSitesData.shape = "array")
    => LET report == validation.report
       IN /\ report.validSites + Len(report.invalidSites) = report.totalSites
          /\ report.summary.temples + report.summary.gurdwaras = report.validSites
          /\ report.summary.sitesWithContact <= report.validSites
          /\ report.summary.sitesWithImages <= report.validSites
          /\ report.isValid <=> report.validSites = report.totalSites

\* with a rejected temple in the collection getDatabaseStats counts fewer
\* temples than getSitesByType('temple') returns
C30_Witness ==
    /\ call.op = "getDatabaseStats"
    /\ ~call.threw
    /\ result.temples < Len(getSitesByType(religiousSitesData, "temple"))

(***************************************************************************)
(* Properties of the filter panel, the search box, the table, the detail   *)
(* card and the guide. `handler` names the handler of the last step, so    *)
(* handler' = h marks the steps taken by h.                                *)
(***************************************************************************)
\* C23: 'Clear all' of the filter panel emits type 'all', location '' and
\* facilities [] and keeps the query; afterwards the count of active
\* filters is 0.
C23_ClearAllKeepsQuery ==
    [][handler' = "handleClearFilters" =>
          /\ currentFilters' = SearchFilters(currentFilters.query, "all", <<>>, <<>>)
          /\ activeFilterCount(currentFilters') = 0
          /\ ~hasActiveFilters(currentFilters')]_vars

\* the filters were cleared under a query, which is still there
C23_Witness ==
    /\ handler = "handleClearFilters"
    /\ currentFilters.query # <<>>
    /\ activeFilterCount(currentFilters) = 0

NoFacilityTwice(facilities) ==
    \A i \in 1..Len(facilities) : \A j \in 1..Len(facilities) :
        i # j => facilities[i] # facilities[j]

\* C24: every action of the filter panel changes its own field of the
\* current filters only; a facility toggle appends the facility when the
\* list does not hold it and removes it when it does, so the list never
\* holds a facility twice.
C24_PanelActionsChangeOneField ==
    /\ []NoFacilityTwice(currentFilters.facilities)
    /\ [][/\ handler' = "handleTypeChange" =>
                [currentFilters' EXCEPT !.type = currentFilters.type] = currentFilters
          /\ handler' = "handleLocationChange" =>
                [currentFilters' EXCEPT !.location = currentFilters.location] = currentFilters
          /\ handler' = "handleFacilityToggle" =>
                /\ [currentFilters' EXCEPT !.facilities = currentFilters.facilities]
                      = currentFilters
                /\ \E facility \in Range(availableFacilities) :
                      IF facility \in Range(currentFilters.facilities)
                      THEN /\ facility \notin Range(currentFilters'.facilities)
                           /\ Range(currentFilters'.facilities)
                                 = Range(currentFilters.facilities) \ {facility}
                           /\ Len(currentFilters'.facilities)
                                 = Len(currentFilters.facilities) - 1
                      ELSE currentFilters'.facilities
                              = Append(currentFilters.facilities, facility)]_vars

\* the last facility was toggled off under a type and a query, which stay
C24_Witness ==
    /\ handler = "handleFacilityToggle"
    /\ currentFilters.facilities = <<>>
    /\ currentFilters.type = "gurdwara"
    /\ currentFilters.query # <<>>

\* C25: every keystroke, submit and suggestion click of the hero calls
\* onSearch with the query and type 'all', location '', facilities [], which
\* the page stores as its current filters: type, location and facilities
\* are reset.
C25_HeroSearchResetsFilters ==
    [][handler' \in {"handleSearchChange", "handleSearchSubmit", "handleSuggestionClick"} =>
          currentFilters' = SearchFilters(searchQuery', "all", <<>>, <<>>)]_vars

\* a suggestion was clicked and is the query of the current filters
C25_Witness ==
    /\ handler = "handleSuggestionClick"
    /\ searchQuery = <<"X">>
    /\ currentFilters = SearchFilters(<<"X">>, "all", <<>>, <<>>)

Occurrences(list, x) == Cardinality({i \in 1..Len(list) : list[i] = x})

IsPermutation(a, b) ==
    /\ Len(a) = Len(b)
    /\ \A x \in Range(a) \cup Range(b) : Occurrences(a, x) = Occurrences(b, x)

\* every row sorts before or like the next one in the current direction
InOrder(rows, field, direction) ==
    \A i \in 1..(Len(rows) - 1) :
        LET comparison == localeCompare(SortValue(rows[i], field),
                                        SortValue(rows[i + 1], field))
        IN IF direction = "asc" THEN comparison <= 0 ELSE comparison >= 0

\* C26: the table starts sorted by name, ascending; a click on the header
\* of the current field flips the direction and a click on another header
\* selects that field, ascending; the rows shown are a permutation of the
\* given sites in the order of the current field and direction, and the
\* given array is not reordered.
C26_TableSort ==
    /\ sortField = "name" /\ sortDirection = "asc"
    /\ [](/\ IsPermutation(sortedSites(filteredSites, sortField, sortDirection),
                           filteredSites)
          /\ InOrder(sortedSites(filteredSites, sortField, sortDirection),
                     sortField, sortDirection))
    /\ [][handler' = "handleSort" =>
             /\ \/ sortField' = sortField /\ sortDirection' # sortDirection
                \/ sortField' # sortField /\ sortDirection' = "asc"
             /\ filteredSites' = filteredSites]_vars

\* three rows by type, descending: the rows are shown in another order than
\* the array holds them
C26_Witness ==
    /\ handler = "handleSort"
    /\ sortField = "type" /\ sortDirection = "desc"
    /\ Len(filteredSites) = 3
    /\ sortedSites(filteredSites, sortField, sortDirection) # filteredSites

\* C27: the detail card is open exactly when a site is selected: a click on
\* a site sets both, closing the card clears both, and a change of the
\* filters or of the view mode changes neither.
C27_DetailCardFollowsSelection ==
    /\ [](isDetailCardOpen <=> selectedSite # Null)
    /\ [][/\ handler' = "handleSiteClick" =>
                isDetailCardOpen' /\ selectedSite' \in Range(filteredSites)
          /\ handler' = "handleCloseDetailCard" =>
                ~isDetailCardOpen' /\ selectedSite' = Null
          /\ handler' \notin {"handleSiteClick", "handleCloseDetailCard"} =>
                UNCHANGED <<selectedSite, isDetailCardOpen>>]_vars

\* the card stays open on a site that a change of the type filter removed
\* from the results
C27_Witness ==
    /\ handler = "handleTypeChange"
    /\ isDetailCardOpen
    /\ selectedSite # Null
    /\ selectedSite \notin Range(filteredSites)

\* C28: from an empty search history, after any submits and suggestion
\* clicks the history holds at most 10 entries and none twice; its first
\* entry is the most recent non-blank submitted query or clicked suggestion;
\* a blank submit leaves it unchanged.
C28_SearchHistory ==
    /\ [](/\ Len(searchHistory) <= 10
          /\ \A i \in 1..Len(searchHistory) : \A j \in 1..Len(searchHistory) :
                i # j => searchHistory[i] # searchHistory[j])
    /\ [][IF handler' = "handleSearchSubmit" /\ Trim(searchQuery) # <<>>
          THEN Head(searchHistory') = searchQuery
          ELSE IF handler' = "handleSuggestionClick"
          THEN Head(searchHistory') = searchQuery'
          ELSE searchHistory' = searchHistory]_vars

\* the eleventh entry pushed the oldest one out of a full history
C28_Witness ==
    /\ handler \in {"handleSearchSubmit", "handleSuggestionClick"}
    /\ Len(searchHistory) = 10
    /\ Head(Vocabulary) \notin Range(searchHistory)
    /\ Head(searchHistory) = Vocabulary[Len(Vocabulary)]

\* C29: the step of the guide stays within 0..steps-1 under Next and
\* Previous; every opening starts at step 0; the guide is marked seen, in
\* the hook and in the store, only by Next on the last step, which also
\* closes it; Skip and the close button close it without marking it seen.
C29_GuideSteps ==
    /\ [](currentStep \in 0..(Len(guideSteps) - 1))
    /\ [][/\ (~isGuideOpen /\ isGuideOpen') => currentStep' = 0
          /\ (hasSeenGuide' # hasSeenGuide \/ guideSeen' # guideSeen) =>
                /\ handler' = "handleNext"
                /\ isGuideOpen /\ currentStep = Len(guideSteps) - 1
          /\ (handler' = "handleNext" /\ currentStep = Len(guideSteps) - 1) =>
                hasSeenGuide' /\ guideSeen' /\ ~isGuideOpen'
          /\ (handler' = "handleNext" /\ currentStep < Len(guideSteps) - 1) =>
                currentStep' = currentStep + 1 /\ isGuideOpen'
          /\ handler' = "handlePrevious" =>
                currentStep' = currentStep - 1 /\ isGuideOpen'
          /\ handler' = "handleSkip" =>
                ~isGuideOpen' /\ UNCHANGED <<hasSeenGuide, guideSeen>>]_vars

\* the guide was finished on its last step: it is closed and marked seen
C29_Witness ==
    /\ handler = "handleNext"
    /\ ~isGuideOpen
    /\ currentStep = Len(guideSteps) - 1
    /\ hasSeenGuide /\ guideSeen

====
